---- MODULE Spec2Model ----
(***************************************************************************)
(* A model of pypose/lietensor/utils.py: the random samplers (randn_like,  *)
(* randn_<kind>), the identity factories, the assert_ltype entry check and *)
(* the Lie-group kernels Exp, Log, Inv, Mul, Retr, ... it forwards to.     *)
(*                                                                         *)
(* Real numbers are fixed-point integers: the integer n stands for the     *)
(* real n / ONE.  The formulas are the ones the docstrings of utils.py     *)
(* give; the tensor engine's primitives (sin, cos, atan, exp, log, sqrt)   *)
(* are computed by series on that fixed-point grid.                        *)
(***************************************************************************)
EXTENDS Integers, Sequences, FiniteSets, TLC

VARIABLES
    pc,      \* position of the caller: "call" (a call is pending) or "done"
    arg,     \* the pending / last call: operation name and operands
    ret,     \* the outcome of the last call: error name and value
    gens,    \* state of every generator handle (numbers drawn so far)
    inner,   \* the calls the public function made to the ltype's methods
    defaults \* the list object that is randn_like's default sigma

vars == <<pc, arg, ret, gens, inner, defaults>>

(***************************************************************************)
(* Fixed-point arithmetic of the tensor engine: the integer n stands for   *)
(* n / ONE, and ONE = KILO * KILO so that a product is formed from the     *)
(* high and low parts of its factors without leaving the 32-bit integers.  *)
(***************************************************************************)
KILO == 1000

ONE == KILO * KILO

Abs(a) == IF a < 0 THEN -a ELSE a

Sgn(a) == IF a < 0 THEN -1 ELSE IF a > 0 THEN 1 ELSE 0

\* a / b for integers a and b > 0, rounded to the nearest integer
RDiv(a, b) == (2 * a + b) \div (2 * b)

\* the product of two non-negative fixed-point numbers
MulPos(a, b) ==
    LET ah == a \div KILO
        al == a % KILO
        bh == b \div KILO
        bl == b % KILO
    IN ah * bh + RDiv(ah * bl + al * bh + RDiv(al * bl, KILO), KILO)

Mulf(a, b) == Sgn(a) * Sgn(b) * MulPos(Abs(a), Abs(b))

\* the six decimal digits of r / b (0 <= r < b), rounded, after the digits acc
RECURSIVE DivFrac(_, _, _, _)
DivFrac(r, b, n, acc) ==
    IF n = 0 THEN acc + (IF 2 * r >= b THEN 1 ELSE 0)
    ELSE DivFrac((10 * r) % b, b, n - 1, 10 * acc + (10 * r) \div b)

\* the quotient of two fixed-point numbers, b # 0
Divf(a, b) ==
    Sgn(a) * Sgn(b) * DivFrac(Abs(a) % Abs(b), Abs(b), 6, Abs(a) \div Abs(b))

Half(a) == Sgn(a) * RDiv(Abs(a), 2)

\* floor of the square root of a natural number (Newton's iteration from x)
RECURSIVE IsqrtIter(_, _)
IsqrtIter(n, x) ==
    LET y == (x + n \div x) \div 2
    IN IF y >= x THEN x ELSE IsqrtIter(n, y)

Isqrt(n) == IF n <= 0 THEN 0 ELSE IsqrtIter(n, n)

\* Newton's iteration y -> (y + a / y) / 2 on fixed-point numbers
RECURSIVE SqrtIter(_, _, _)
SqrtIter(a, y, n) ==
    LET z == Half(y + Divf(a, y))
    IN IF n = 0 \/ z = y THEN z ELSE SqrtIter(a, z, n - 1)

\* torch.sqrt on a fixed-point number
sqrt(a) == IF a <= 0 THEN 0 ELSE SqrtIter(a, Isqrt(a) * KILO + 1, 8)

\* sum_{k>=0} of the series whose k-th term is t and whose next term is
\* -t * x2 / ((n+1)(n+2)): sin (t = x, n = 1) and cos (t = 1, n = 0)
RECURSIVE TrigSeries(_, _, _)
TrigSeries(t, x2, n) ==
    IF t = 0 THEN 0
    ELSE t + TrigSeries(-Sgn(t) * RDiv(MulPos(Abs(t), x2), (n + 1) * (n + 2)),
                        x2, n + 2)

\* torch.sin and torch.cos on a fixed-point number
sin(x) == TrigSeries(x, Mulf(x, x), 1)

cos(x) == TrigSeries(ONE, Mulf(x, x), 0)

PI == 3141593

\* sum of the series t - t^3/3 + t^5/5 - ... for |t| <= 1/4; p is the current
\* signed odd power of t and n its exponent
RECURSIVE AtanSeries(_, _, _)
AtanSeries(p, t2, n) ==
    IF p = 0 THEN 0
    ELSE Sgn(p) * RDiv(Abs(p), n) + AtanSeries(-Mulf(p, t2), t2, n + 2)

\* atan(t) for 0 <= t <= 1: atan(t) = atan(c) + atan((t - c) / (1 + t c)) with
\* c = 1 (atan 1 = 0.785398) or c = 1/2 (atan 1/2 = 0.463648), so that the
\* series is summed for an argument of magnitude below 1/4
AtanAbout(t, c, atanc) ==
    LET u == Divf(t - c, ONE + Mulf(t, c))
    IN atanc + AtanSeries(u, Mulf(u, u), 1)

AtanUnit(t) ==
    IF 4 * t > 3 * ONE THEN AtanAbout(t, ONE, 785398)
    ELSE IF 4 * t > ONE THEN AtanAbout(t, ONE \div 2, 463648)
    ELSE AtanSeries(t, Mulf(t, t), 1)

\* torch.atan on a fixed-point number
atan(t) ==
    IF t < 0 THEN
        (IF -t > ONE THEN -(Half(PI) - AtanUnit(Divf(ONE, -t)))
         ELSE -AtanUnit(-t))
    ELSE IF t > ONE THEN Half(PI) - AtanUnit(Divf(ONE, t))
    ELSE AtanUnit(t)

\* sum of x^k / k! from the term t = x^n / n! on
RECURSIVE ExpSeries(_, _, _)
ExpSeries(t, x, n) ==
    IF t = 0 THEN 0
    ELSE t + ExpSeries(Sgn(t) * Sgn(x) * RDiv(MulPos(Abs(t), Abs(x)), n + 1),
                       x, n + 1)

\* torch.exp on a fixed-point number
exp(x) == ExpSeries(ONE, x, 0)

\* sum of z^n / n over the odd n from the power p = z^n on
RECURSIVE AtanhSeries(_, _, _)
AtanhSeries(p, z2, n) ==
    IF p = 0 THEN 0
    ELSE Sgn(p) * RDiv(Abs(p), n) + AtanhSeries(Mulf(p, z2), z2, n + 2)

\* torch.log on a positive fixed-point number: 2 atanh((s - 1) / (s + 1))
log(s) ==
    LET z == Divf(s - ONE, s + ONE)
    IN 2 * AtanhSeries(z, Mulf(z, z), 1)

(***************************************************************************)
(* Vectors: an element of a LieTensor is a sequence of fixed-point numbers.*)
(***************************************************************************)
vec3(x, i) == <<x[i], x[i + 1], x[i + 2]>>

vec4(x, i) == <<x[i], x[i + 1], x[i + 2], x[i + 3]>>

Scale(k, v) == [i \in 1..Len(v) |-> Mulf(k, v[i])]

VAdd(a, b) == [i \in 1..Len(a) |-> a[i] + b[i]]

VSub(a, b) == [i \in 1..Len(a) |-> a[i] - b[i]]

VNeg(a) == [i \in 1..Len(a) |-> -a[i]]

Dot(a, b) == Mulf(a[1], b[1]) + Mulf(a[2], b[2]) + Mulf(a[3], b[3])

\* torch.cross; Phi v for the skew matrix Phi of a
Cross(a, b) ==
    << Mulf(a[2], b[3]) - Mulf(a[3], b[2]),
       Mulf(a[3], b[1]) - Mulf(a[1], b[3]),
       Mulf(a[1], b[2]) - Mulf(a[2], b[1]) >>

MaxAbs(v) ==
    LET m(a, b) == IF a >= b THEN a ELSE b
    IN m(Abs(v[1]), m(Abs(v[2]), Abs(v[3])))

\* torch.norm of a 3-vector (the components are scaled by the largest one, so
\* that a short vector keeps its relative precision)
norm(v) ==
    LET m == MaxAbs(v)
        u == [i \in 1..3 |-> Divf(v[i], m)]
    IN IF m = 0 THEN 0 ELSE Mulf(m, sqrt(Dot(u, u)))

\* the threshold between the closed forms and their series
eps == 50000

(***************************************************************************)
(* Exp, element by element (docstring of Exp).                             *)
(***************************************************************************)
\* Faulty variant of so3_Exp: the quaternion is laid out scalar first.
so3_Exp_scalar_first(x) ==
    LET th == norm(x)
        t2 == Mulf(th, th)
        t4 == Mulf(t2, t2)
    IN IF th > eps
       THEN <<cos(Half(th))>> \o Scale(Divf(sin(Half(th)), th), x)
       ELSE <<ONE - RDiv(t2, 8) + RDiv(t4, 384)>>
            \o Scale(Half(ONE) - RDiv(t2, 48) + RDiv(t4, 3840), x)

\* the closed form of so3 Exp, for |x| > eps
so3_Exp_closed(x) ==
    LET th == norm(x)
    IN Scale(Divf(sin(Half(th)), th), x) \o <<cos(Half(th))>>

\* Faulty variant of so3_Exp_series: the series of sin and cos of the whole
\* angle, not of its half.
so3_Exp_series_full_angle(x) ==
    LET th == norm(x)
        t2 == Mulf(th, th)
        t4 == Mulf(t2, t2)
    IN Scale(ONE - RDiv(t2, 6) + RDiv(t4, 120), x)
       \o <<ONE - RDiv(t2, 2) + RDiv(t4, 24)>>

\* the series of so3 Exp, for |x| <= eps
so3_Exp_series(x) ==
    LET th == norm(x)
        t2 == Mulf(th, th)
        t4 == Mulf(t2, t2)
    IN Scale(Half(ONE) - RDiv(t2, 48) + RDiv(t4, 3840), x)
       \o <<ONE - RDiv(t2, 8) + RDiv(t4, 384)>>

\* so3 -> SO3
so3_Exp(x) == IF norm(x) > eps THEN so3_Exp_closed(x) ELSE so3_Exp_series(x)

\* the coefficients A, B, C of sW = A Phi + B Phi^2 + C I; sigBig and thBig
\* say which of the two nested branches the caller took.  The docstring prints
\* the last product of B's closed form as s sin(th) sigma; Eq. (5.7) of the
\* reference it cites, and the limit th -> 0 that its own series branch
\* states, have s sin(th) th, which is what is modelled.
calcW(th, sigma, s, sigBig, thBig) ==
    LET t2 == Mulf(th, th)
        s2 == Mulf(sigma, sigma)
        C  == IF sigBig THEN Divf(s - ONE, sigma) ELSE ONE
        A  == IF sigBig
              THEN (IF thBig
                    THEN Divf(Divf(Mulf(Mulf(s, sin(th)), sigma)
                                   + Mulf(ONE - Mulf(s, cos(th)), th), th),
                              s2 + t2)
                    ELSE Divf(Mulf(sigma - ONE, s) + ONE, s2))
              ELSE (IF thBig THEN Divf(ONE - cos(th), t2) ELSE Half(ONE))
        B  == IF sigBig
              THEN (IF thBig
                    THEN Divf(C - Divf(Mulf(Mulf(s, cos(th)) - ONE, sigma)
                                       + Mulf(Mulf(s, sin(th)), th),
                                       t2 + s2), t2)
                    ELSE Divf(Divf(Half(Mulf(s, s2)) + s - ONE - Mulf(sigma, s),
                                   s2), sigma))
              ELSE (IF thBig THEN Divf(Divf(th - sin(th), t2), th)
                    ELSE RDiv(ONE, 6))
    IN [A |-> A, B |-> B, C |-> C]

\* (A Phi + B Phi^2 + C I) v
applyW(c, phi, v) ==
    LET pv == Cross(phi, v)
    IN VAdd(VAdd(Scale(c.A, pv), Scale(c.B, Cross(phi, pv))), Scale(c.C, v))

\* the left Jacobian of so3 applied to v: sW without scale
so3_Jl(phi, v) ==
    LET th == norm(phi)
    IN applyW(calcW(th, 0, ONE, FALSE, th > eps), phi, v)

\* se3 -> SE3
se3_Exp(x) == so3_Jl(vec3(x, 4), vec3(x, 1)) \o so3_Exp(vec3(x, 4))

\* rxso3 -> RxSO3
rxso3_Exp(x) == so3_Exp(vec3(x, 1)) \o <<exp(x[4])>>

\* Faulty variant of sim3_Exp_branch: the closed forms are taken for every
\* non-zero sigma and theta.
sim3_Exp_branch_unguarded(th, sigma) == [sigBig |-> sigma # 0, thBig |-> th > 0]

\* the branch of the coefficients (A, B, C) that sim3 Exp takes for an element:
\* the forms in sigma when |sigma| >= eps, and in each the closed form in theta
\* when theta >= eps
sim3_Exp_branch(th, sigma) == [sigBig |-> Abs(sigma) >= eps, thBig |-> th >= eps]

\* sim3 -> Sim3
sim3_Exp(x) ==
    LET phi   == vec3(x, 4)
        sigma == x[7]
        th    == norm(phi)
        b     == sim3_Exp_branch(th, sigma)
        c     == calcW(th, sigma, exp(sigma), b.sigBig, b.thBig)
    IN applyW(c, phi, vec3(x, 1)) \o so3_Exp(phi) \o <<exp(sigma)>>

(***************************************************************************)
(* Log, element by element (docstring of Log).                             *)
(***************************************************************************)
\* Faulty variant of SO3_Log: the angle is arctan(n/w), not twice that.
SO3_Log_half_angle(q) ==
    LET v == vec3(q, 1)
        w == q[4]
        n == norm(v)
        f == IF n > eps
             THEN (IF Abs(w) > eps THEN Divf(atan(Divf(n, w)), n)
                   ELSE Sgn(w) * Divf(PI, n))
             ELSE Divf(ONE, w)
                  - Divf(Divf(Divf(RDiv(Mulf(n, n), 3), w), w), w)
    IN Scale(f, v)

\* the closed form of SO3 Log, for |nu| > eps
SO3_Log_closed(q) ==
    LET v == vec3(q, 1)
        w == q[4]
        n == norm(v)
    IN Scale(IF Abs(w) > eps THEN Divf(2 * atan(Divf(n, w)), n)
             ELSE Sgn(w) * Divf(PI, n), v)

\* the series of SO3 Log, for |nu| <= eps
SO3_Log_series(q) ==
    LET v == vec3(q, 1)
        w == q[4]
        n == norm(v)
    IN Scale(2 * (Divf(ONE, w)
                  - Divf(Divf(Divf(RDiv(Mulf(n, n), 3), w), w), w)), v)

\* SO3 -> so3
SO3_Log(q) ==
    IF norm(vec3(q, 1)) > eps THEN SO3_Log_closed(q) ELSE SO3_Log_series(q)

\* the coefficient of Phi^2 in the inverse left Jacobian of so3 (docstring of
\* Jinvp)
so3_Jl_inv_coef(th) ==
    IF th > eps
    THEN Divf(Divf(ONE, th), th)
         - Divf(cos(Half(th)), 2 * Mulf(th, sin(Half(th))))
    ELSE RDiv(ONE, 12)

\* (I - Phi / 2 + coef Phi^2) v
so3_Jl_inv(phi, v) ==
    LET pv == Cross(phi, v)
    IN VAdd(VSub(v, [i \in 1..3 |-> Half(pv[i])]),
            Scale(so3_Jl_inv_coef(norm(phi)), Cross(phi, pv)))

\* SE3 -> se3
SE3_Log(X) ==
    LET phi == SO3_Log(vec4(X, 4))
    IN so3_Jl_inv(phi, vec3(X, 1)) \o phi

\* RxSO3 -> rxso3
RxSO3_Log(X) == SO3_Log(vec4(X, 1)) \o <<log(X[5])>>

\* the inverse of sW = A Phi + B Phi^2 + C I is a Phi + b Phi^2 + c I with
\* c = 1 / C, a = -A / det, b = c (A^2 - B D) / det, where D = C - th^2 B and
\* det = D^2 + th^2 A^2 (Phi^3 = -th^2 Phi)
invW(c, th) ==
    LET t2  == Mulf(th, th)
        D   == c.C - Mulf(t2, c.B)
        det == Mulf(D, D) + Mulf(t2, Mulf(c.A, c.A))
        ci  == Divf(ONE, c.C)
    IN [A |-> -Divf(c.A, det),
        B |-> Divf(Mulf(ci, Mulf(c.A, c.A) - Mulf(c.B, D)), det),
        C |-> ci]

\* the branch of the coefficients (A, B, C) that Sim3 Log takes for an element:
\* the forms in sigma when |sigma| > eps, and in each the closed form in theta
\* when theta > eps
Sim3_Log_branch(th, sigma) == [sigBig |-> Abs(sigma) > eps, thBig |-> th > eps]

\* Sim3 -> sim3
Sim3_Log(X) ==
    LET phi   == SO3_Log(vec4(X, 4))
        sigma == log(X[8])
        th    == norm(phi)
        b     == Sim3_Log_branch(th, sigma)
        c     == calcW(th, sigma, X[8], b.sigBig, b.thBig)
    IN applyW(invW(c, th), phi, vec3(X, 1)) \o phi \o <<sigma>>

(***************************************************************************)
(* Inv and Mul, element by element: the group laws of section 4.4.         *)
(***************************************************************************)
\* the Hamilton product of two quaternions [vector, scalar]
quat_mul(p, q) ==
    LET pv == vec3(p, 1)
        qv == vec3(q, 1)
    IN VAdd(VAdd(Scale(p[4], qv), Scale(q[4], pv)), Cross(pv, qv))
       \o <<Mulf(p[4], q[4]) - Dot(pv, qv)>>

\* the conjugate of a quaternion
quat_conj(q) == VNeg(vec3(q, 1)) \o <<q[4]>>

\* the rotation of the point v by the quaternion q: v + 2 w (u x v) + 2 u x (u x v)
quat_rotate(q, v) ==
    LET u  == vec3(q, 1)
        uv == Cross(u, v)
    IN VAdd(v, VAdd(Scale(2 * q[4], uv), Scale(2 * ONE, Cross(u, uv))))

SO3_Inv(X) == quat_conj(X)

SE3_Inv(X) ==
    LET qi == quat_conj(vec4(X, 4))
    IN VNeg(quat_rotate(qi, vec3(X, 1))) \o qi

RxSO3_Inv(X) == quat_conj(vec4(X, 1)) \o <<Divf(ONE, X[5])>>

Sim3_Inv(X) ==
    LET qi == quat_conj(vec4(X, 4))
        si == Divf(ONE, X[8])
    IN VNeg(Scale(si, quat_rotate(qi, vec3(X, 1)))) \o qi \o <<si>>

SO3_Mul(X, Y) == quat_mul(X, Y)

SE3_Mul(X, Y) ==
    VAdd(vec3(X, 1), quat_rotate(vec4(X, 4), vec3(Y, 1)))
    \o quat_mul(vec4(X, 4), vec4(Y, 4))

RxSO3_Mul(X, Y) == quat_mul(vec4(X, 1), vec4(Y, 1)) \o <<Mulf(X[5], Y[5])>>

Sim3_Mul(X, Y) ==
    VAdd(vec3(X, 1), Scale(X[8], quat_rotate(vec4(X, 4), vec3(Y, 1))))
    \o quat_mul(vec4(X, 4), vec4(Y, 4)) \o <<Mulf(X[8], Y[8])>>

(***************************************************************************)
(* Act, Adj and AdjT, element by element (section 4.4), and Jinvp          *)
(* (docstring of Jinvp).  R v is quat_rotate(q, v), R^T v is               *)
(* quat_rotate(quat_conj(q), v).                                           *)
(***************************************************************************)
SO3_Act(X, p) == quat_rotate(X, p)

SE3_Act(X, p) == VAdd(vec3(X, 1), quat_rotate(vec4(X, 4), p))

RxSO3_Act(X, p) == Scale(X[5], quat_rotate(vec4(X, 1), p))

Sim3_Act(X, p) == VAdd(vec3(X, 1), Scale(X[8], quat_rotate(vec4(X, 4), p)))

SO3_Adj(X, a) == quat_rotate(X, a)

\* [R tau + t x (R phi), R phi]
SE3_Adj(X, a) ==
    LET Rphi == quat_rotate(vec4(X, 4), vec3(a, 4))
    IN VAdd(quat_rotate(vec4(X, 4), vec3(a, 1)), Cross(vec3(X, 1), Rphi)) \o Rphi

RxSO3_Adj(X, a) == quat_rotate(vec4(X, 1), vec3(a, 1)) \o <<a[4]>>

\* [s R tau + t x (R phi) - sigma t, R phi, sigma]
Sim3_Adj(X, a) ==
    LET Rphi == quat_rotate(vec4(X, 4), vec3(a, 4))
    IN VSub(VAdd(Scale(X[8], quat_rotate(vec4(X, 4), vec3(a, 1))),
                 Cross(vec3(X, 1), Rphi)),
            Scale(a[7], vec3(X, 1)))
       \o Rphi \o <<a[7]>>

SO3_AdjT(X, a) == quat_rotate(quat_conj(X), a)

\* [R^T tau, R^T (phi - t x tau)]
SE3_AdjT(X, a) ==
    LET qi == quat_conj(vec4(X, 4))
    IN quat_rotate(qi, vec3(a, 1))
       \o quat_rotate(qi, VSub(vec3(a, 4), Cross(vec3(X, 1), vec3(a, 1))))

RxSO3_AdjT(X, a) == quat_rotate(quat_conj(vec4(X, 1)), vec3(a, 1)) \o <<a[4]>>

\* [s R^T tau, R^T (phi - t x tau), sigma - t . tau]
Sim3_AdjT(X, a) ==
    LET qi == quat_conj(vec4(X, 4))
    IN Scale(X[8], quat_rotate(qi, vec3(a, 1)))
       \o quat_rotate(qi, VSub(vec3(a, 4), Cross(vec3(X, 1), vec3(a, 1))))
       \o <<a[7] - Dot(vec3(X, 1), vec3(a, 1))>>

SO3_Jinvp(X, p) == so3_Jl_inv(SO3_Log(X), p)

\* the coefficients c1, c2, c3 of Q
se3_Q_coef(th) ==
    LET t2 == Mulf(th, th)
        t3 == Mulf(t2, th)
    IN IF th > eps
       THEN [c1 |-> Divf(th - sin(th), t3),
             c2 |-> Divf(Divf(t2 + 2 * cos(th) - 2 * ONE, 2 * t2), t2),
             c3 |-> Divf(Divf(2 * th - 3 * sin(th) + Mulf(th, cos(th)), 2 * t3),
                         t2)]
       ELSE [c1 |-> RDiv(ONE, 6) - RDiv(t2, 120),
             c2 |-> RDiv(ONE, 24) - RDiv(t2, 720),
             c3 |-> RDiv(ONE, 120) - RDiv(t2, 2520)]

\* Q(tau, phi) u, with Phi u = phi x u and Tau u = tau x u
se3_Q(tau, phi, u) ==
    LET c     == se3_Q_coef(norm(phi))
        Pu    == Cross(phi, u)
        Tu    == Cross(tau, u)
        PPu   == Cross(phi, Pu)
        TPu   == Cross(tau, Pu)
        PTu   == Cross(phi, Tu)
        PTPu  == Cross(phi, TPu)
        PPTu  == Cross(phi, PTu)
        TPPu  == Cross(tau, PPu)
        PTPPu == Cross(phi, TPPu)
        PPTPu == Cross(phi, PTPu)
    IN VAdd(VAdd([i \in 1..3 |-> Half(Tu[i])],
                 Scale(c.c1, VAdd(VAdd(PTu, TPu), PTPu))),
            VAdd(Scale(c.c2, VSub(VAdd(PPTu, TPPu), Scale(3 * ONE, PTPu))),
                 Scale(c.c3, VAdd(PTPPu, PPTPu))))

\* [J^-1 p_tau - J^-1 Q J^-1 p_phi, J^-1 p_phi] at tau, phi, with lo = J^-1 p_phi
se3_Jl_inv(tau, phi, ptau, lo) ==
    VSub(so3_Jl_inv(phi, ptau), so3_Jl_inv(phi, se3_Q(tau, phi, lo))) \o lo

se3_Jinvp(xi, p) ==
    se3_Jl_inv(vec3(xi, 1), vec3(xi, 4), vec3(p, 1),
               so3_Jl_inv(vec3(xi, 4), vec3(p, 4)))

SE3_Jinvp(X, p) == se3_Jinvp(SE3_Log(X), p)

\* Faulty variant of RxSO3_Jinvp: the scale of X acts on the scale component.
RxSO3_Jinvp_scaled(X, p) ==
    so3_Jl_inv(SO3_Log(vec4(X, 1)), vec3(p, 1)) \o <<Mulf(X[5], p[4])>>

RxSO3_Jinvp(X, p) ==
    so3_Jl_inv(SO3_Log(vec4(X, 1)), vec3(p, 1)) \o <<p[4]>>

\* adj(xi) p for xi, p in sim3
sim3_adj(xi, p) ==
    VSub(VAdd(VAdd(Scale(xi[7], vec3(p, 1)), Cross(vec3(xi, 4), vec3(p, 1))),
              Cross(vec3(xi, 1), vec3(p, 4))),
         Scale(p[7], vec3(xi, 1)))
    \o Cross(vec3(xi, 4), vec3(p, 4)) \o <<0>>

\* the truncated Bernoulli series of the inverse left Jacobian of sim3,
\* (I - adj(xi) / 2 + adj(xi)^2 / 12 - adj(xi)^4 / 720) p, from a1 = adj(xi) p,
\* a2 = adj(xi)^2 p and a4 = adj(xi)^4 p.  The docstring prints the
\* coefficients as (-1)^n B_n / n! with B_1 = -1/2, which would give
\* + adj(xi) / 2, the inverse of the right Jacobian; the operation is the
\* inverse of the left Jacobian, as for SO3 (I - Phi / 2 + ...).
sim3_series(p, a1, a2, a4) ==
    [j \in 1..7 |->
        p[j] - Sgn(a1[j]) * RDiv(Abs(a1[j]), 2)
             + Sgn(a2[j]) * RDiv(Abs(a2[j]), 12)
             - Sgn(a4[j]) * RDiv(Abs(a4[j]), 720)]

sim3_series_from2(xi, p, a1, a2) ==
    sim3_series(p, a1, a2, sim3_adj(xi, sim3_adj(xi, a2)))

sim3_series_from1(xi, p, a1) == sim3_series_from2(xi, p, a1, sim3_adj(xi, a1))

sim3_Jinvp(xi, p) == sim3_series_from1(xi, p, sim3_adj(xi, p))

Sim3_Jinvp(X, p) == sim3_Jinvp(Sim3_Log(X), p)

(***************************************************************************)
(* Kinds (ltype) and tagged values (LieTensor).                            *)
(***************************************************************************)
GroupTypes == {"SO3_type", "SE3_type", "Sim3_type", "RxSO3_type"}

AlgebraTypes == {"so3_type", "se3_type", "sim3_type", "rxso3_type"}

LieTypes == GroupTypes \cup AlgebraTypes

\* the group kind of an algebra kind and the algebra kind of a group kind
Paired(k) ==
    CASE k = "so3_type"   -> "SO3_type"
      [] k = "se3_type"   -> "SE3_type"
      [] k = "sim3_type"  -> "Sim3_type"
      [] k = "rxso3_type" -> "RxSO3_type"
      [] k = "SO3_type"   -> "so3_type"
      [] k = "SE3_type"   -> "se3_type"
      [] k = "Sim3_type"  -> "sim3_type"
      [] k = "RxSO3_type" -> "rxso3_type"

\* the algebra kind a kind samples in
AlgebraOf(k) == IF k \in AlgebraTypes THEN k ELSE Paired(k)

\* the size of the last dimension of a value of kind k
Width(k) ==
    CASE k = "so3_type"   -> 3
      [] k = "se3_type"   -> 6
      [] k = "sim3_type"  -> 7
      [] k = "rxso3_type" -> 4
      [] k = "SO3_type"   -> 4
      [] k = "SE3_type"   -> 7
      [] k = "Sim3_type"  -> 8
      [] k = "RxSO3_type" -> 5

\* the identity element of kind k
IdentityElem(k) ==
    CASE k \in AlgebraTypes -> [i \in 1..Width(k) |-> 0]
      [] k = "SO3_type"     -> <<0, 0, 0, ONE>>
      [] k = "SE3_type"     -> <<0, 0, 0, 0, 0, 0, ONE>>
      [] k = "Sim3_type"    -> <<0, 0, 0, 0, 0, 0, ONE, ONE>>
      [] k = "RxSO3_type"   -> <<0, 0, 0, ONE, ONE>>

\* the number of elements of a batch of shape lshape
RECURSIVE Numel(_)
Numel(lshape) ==
    IF lshape = <<>> THEN 1 ELSE Head(lshape) * Numel(Tail(lshape))

\* a LieTensor: its kind, its batch shape and its elements in row-major order
LieTensor(ltype, lshape, data) ==
    [cls |-> "LieTensor", ltype |-> ltype, lshape |-> lshape, data |-> data]

\* a torch.Tensor that is no LieTensor
Tensor(lshape, data) ==
    [cls |-> "Tensor", ltype |-> "none", lshape |-> lshape, data |-> data]

None == [cls |-> "None", ltype |-> "none", lshape |-> <<>>, data |-> <<>>]

\* the outcome of a call: a returned value or a raised error.  alias names
\* the operand the returned object is; 0 is a newly created object.
Return(v) == [err |-> "none", val |-> v, alias |-> 0]

Raise(e) == [err |-> e, val |-> None, alias |-> 0]

\* the operands as the caller sees them after a call with outcome r: a call
\* that assigned into none of them leaves them as they were
OperandsAfter(r, args) == IF "args" \in DOMAIN r THEN r.args ELSE args

\* the list object passed as sigma as the caller sees it after a call with
\* outcome r: a call that did not write into it leaves it as it was
SigmaAfter(r, sigma) == IF "sigma" \in DOMAIN r THEN r.sigma ELSE sigma

(***************************************************************************)
(* The methods of LieTensor the public functions forward to: each kernel   *)
(* is applied to every element of the batch.                               *)
(***************************************************************************)
ExpElem(k, e) ==
    CASE k = "so3_type"   -> so3_Exp(e)
      [] k = "se3_type"   -> se3_Exp(e)
      [] k = "sim3_type"  -> sim3_Exp(e)
      [] k = "rxso3_type" -> rxso3_Exp(e)

LogElem(k, e) ==
    CASE k = "SO3_type"   -> SO3_Log(e)
      [] k = "SE3_type"   -> SE3_Log(e)
      [] k = "Sim3_type"  -> Sim3_Log(e)
      [] k = "RxSO3_type" -> RxSO3_Log(e)

InvElem(k, e) ==
    CASE k = "SO3_type"   -> SO3_Inv(e)
      [] k = "SE3_type"   -> SE3_Inv(e)
      [] k = "Sim3_type"  -> Sim3_Inv(e)
      [] k = "RxSO3_type" -> RxSO3_Inv(e)

MulElem(k, a, b) ==
    CASE k = "SO3_type"   -> SO3_Mul(a, b)
      [] k = "SE3_type"   -> SE3_Mul(a, b)
      [] k = "Sim3_type"  -> Sim3_Mul(a, b)
      [] k = "RxSO3_type" -> RxSO3_Mul(a, b)

ActElem(k, X, p) ==
    CASE k = "SO3_type"   -> SO3_Act(X, p)
      [] k = "SE3_type"   -> SE3_Act(X, p)
      [] k = "Sim3_type"  -> Sim3_Act(X, p)
      [] k = "RxSO3_type" -> RxSO3_Act(X, p)

AdjElem(k, X, a) ==
    CASE k = "SO3_type"   -> SO3_Adj(X, a)
      [] k = "SE3_type"   -> SE3_Adj(X, a)
      [] k = "Sim3_type"  -> Sim3_Adj(X, a)
      [] k = "RxSO3_type" -> RxSO3_Adj(X, a)

AdjTElem(k, X, a) ==
    CASE k = "SO3_type"   -> SO3_AdjT(X, a)
      [] k = "SE3_type"   -> SE3_AdjT(X, a)
      [] k = "Sim3_type"  -> Sim3_AdjT(X, a)
      [] k = "RxSO3_type" -> RxSO3_AdjT(X, a)

JinvpElem(k, X, p) ==
    CASE k = "SO3_type"   -> SO3_Jinvp(X, p)
      [] k = "SE3_type"   -> SE3_Jinvp(X, p)
      [] k = "Sim3_type"  -> Sim3_Jinvp(X, p)
      [] k = "RxSO3_type" -> RxSO3_Jinvp(X, p)

\* x.Exp()
LieTensor_Exp(x) ==
    IF x.ltype \notin AlgebraTypes THEN Raise("KindMismatch")
    ELSE Return(LieTensor(Paired(x.ltype), x.lshape,
                          [i \in 1..Len(x.data) |-> ExpElem(x.ltype, x.data[i])]))

\* x.Log()
LieTensor_Log(x) ==
    IF x.ltype \notin GroupTypes THEN Raise("KindMismatch")
    ELSE Return(LieTensor(Paired(x.ltype), x.lshape,
                          [i \in 1..Len(x.data) |-> LogElem(x.ltype, x.data[i])]))

\* x.Inv()
LieTensor_Inv(x) ==
    IF x.ltype \notin GroupTypes THEN Raise("KindMismatch")
    ELSE Return(LieTensor(x.ltype, x.lshape,
                          [i \in 1..Len(x.data) |-> InvElem(x.ltype, x.data[i])]))

\* x * y
LieTensor_mul(x, y) ==
    IF x.ltype \notin GroupTypes \/ y.cls # "LieTensor" \/ y.ltype # x.ltype
    THEN Raise("KindMismatch")
    ELSE IF y.lshape # x.lshape THEN Raise("ShapeError")
    ELSE Return(LieTensor(x.ltype, x.lshape,
                          [i \in 1..Len(x.data) |->
                              MulElem(x.ltype, x.data[i], y.data[i])]))

\* X.Retr(a) = X * a.Exp()
LieTensor_Retr(X, a) ==
    IF X.ltype \notin GroupTypes \/ a.cls # "LieTensor"
       \/ a.ltype # Paired(X.ltype)
    THEN Raise("KindMismatch")
    ELSE LieTensor_mul(X, LieTensor_Exp(a).val)

\* X.Act(p): p is a plain tensor of points
LieTensor_Act(X, p) ==
    IF X.ltype \notin GroupTypes \/ p.cls # "Tensor" THEN Raise("KindMismatch")
    ELSE IF p.lshape # X.lshape \/ \E i \in 1..Len(p.data) : Len(p.data[i]) # 3
    THEN Raise("ShapeError")
    ELSE Return(Tensor(X.lshape,
                       [i \in 1..Len(X.data) |->
                           ActElem(X.ltype, X.data[i], p.data[i])]))

\* X.Adj(a)
LieTensor_Adj(X, a) ==
    IF X.ltype \notin GroupTypes \/ a.cls # "LieTensor"
       \/ a.ltype # Paired(X.ltype)
    THEN Raise("KindMismatch")
    ELSE IF a.lshape # X.lshape THEN Raise("ShapeError")
    ELSE Return(LieTensor(a.ltype, X.lshape,
                          [i \in 1..Len(X.data) |->
                              AdjElem(X.ltype, X.data[i], a.data[i])]))

\* X.AdjT(a)
LieTensor_AdjT(X, a) ==
    IF X.ltype \notin GroupTypes \/ a.cls # "LieTensor"
       \/ a.ltype # Paired(X.ltype)
    THEN Raise("KindMismatch")
    ELSE IF a.lshape # X.lshape THEN Raise("ShapeError")
    ELSE Return(LieTensor(a.ltype, X.lshape,
                          [i \in 1..Len(X.data) |->
                              AdjTElem(X.ltype, X.data[i], a.data[i])]))

\* input.Jinvp(p)
LieTensor_Jinvp(input, p) ==
    IF input.ltype \notin GroupTypes \/ p.cls # "LieTensor"
       \/ p.ltype # Paired(input.ltype)
    THEN Raise("KindMismatch")
    ELSE IF p.lshape # input.lshape THEN Raise("ShapeError")
    ELSE Return(LieTensor(p.ltype, input.lshape,
                          [i \in 1..Len(input.data) |->
                              JinvpElem(input.ltype, input.data[i], p.data[i])]))

\* x.Jr(): the method is not described by its callers; the Jacobian of an
\* element is kept as the term Jr(kind, element)
LieTensor_Jr(x) ==
    Return(Tensor(x.lshape,
                  [i \in 1..Len(x.data) |->
                      [op |-> "Jr", ltype |-> x.ltype, of |-> x.data[i]]]))

(***************************************************************************)
(* The public operations: assert_ltype around a forwarding body.           *)
(* args are the positional operands of the call, kw its keyword operands   *)
(* (a set of [name, val]); the outcome is the call's result and the        *)
(* methods it invoked.                                                     *)
(***************************************************************************)
KwNames(kw) == {e.name : e \in kw}

KwVal(kw, n) == (CHOOSE e \in kw : e.name = n).val

\* Faulty variant of assert_ltype: the decorator without its assertion.
assert_ltype_unchecked(args) ==
    IF Len(args) = 0 THEN "IndexError" ELSE "none"

\* Faulty variant of assert_ltype: every positional operand must be a
\* LieTensor.
assert_ltype_all_operands(args) ==
    IF Len(args) = 0 THEN "IndexError"
    ELSE IF \E i \in 1..Len(args) : args[i].cls # "LieTensor" THEN "AssertionError"
    ELSE "none"

\* the check of the decorator: isinstance(args[0], LieTensor)
assert_ltype(args) ==
    IF Len(args) = 0 THEN "IndexError"
    ELSE IF args[1].cls # "LieTensor" THEN "AssertionError"
    ELSE "none"

\* whether the call binds a function's parameters, the first positionally
BindsUnary(args, kw) == Len(args) = 1 /\ kw = {}

BindsBinary(args, kw, second) ==
    \/ Len(args) = 2 /\ kw = {}
    \/ Len(args) = 1 /\ KwNames(kw) = {second}

Second(args, kw, second) ==
    IF Len(args) >= 2 THEN args[2] ELSE KwVal(kw, second)

Invoked(fn, self, other) == [fn |-> fn, self |-> self, other |-> other]

Failed(e) == [ret |-> Raise(e), inner |-> <<>>]

\* Faulty variant of Exp: one branch for the whole so3 batch, the series as
\* soon as one element is below the threshold.
Exp_batch_branch(args, kw) ==
    IF assert_ltype(args) # "none" THEN Failed(assert_ltype(args))
    ELSE IF ~BindsUnary(args, kw) THEN Failed("TypeError")
    ELSE LET x      == args[1]
             series == /\ x.ltype = "so3_type"
                       /\ \E i \in 1..Len(x.data) : norm(x.data[i]) <= eps
             e(v)   == Scale(Half(ONE) - RDiv(Mulf(norm(v), norm(v)), 48), v)
                       \o <<ONE - RDiv(Mulf(norm(v), norm(v)), 8)>>
         IN  [ret   |-> IF series
                        THEN Return(LieTensor("SO3_type", x.lshape,
                                              [i \in 1..Len(x.data) |-> e(x.data[i])]))
                        ELSE LieTensor_Exp(x),
              inner |-> <<Invoked("Exp", x, None)>>]

\* Faulty variant of Exp: forwards to the Log method.
Exp_calls_Log(args, kw) ==
    IF assert_ltype(args) # "none" THEN Failed(assert_ltype(args))
    ELSE IF ~BindsUnary(args, kw) THEN Failed("TypeError")
    ELSE [ret   |-> LieTensor_Log(args[1]),
          inner |-> <<Invoked("Log", args[1], None)>>]

Exp(args, kw) ==
    IF assert_ltype(args) # "none" THEN Failed(assert_ltype(args))
    ELSE IF ~BindsUnary(args, kw) THEN Failed("TypeError")
    ELSE [ret   |-> LieTensor_Exp(args[1]),
          inner |-> <<Invoked("Exp", args[1], None)>>]

Log(args, kw) ==
    IF assert_ltype(args) # "none" THEN Failed(assert_ltype(args))
    ELSE IF ~BindsUnary(args, kw) THEN Failed("TypeError")
    ELSE [ret   |-> LieTensor_Log(args[1]),
          inner |-> <<Invoked("Log", args[1], None)>>]

Inv(args, kw) ==
    IF assert_ltype(args) # "none" THEN Failed(assert_ltype(args))
    ELSE IF ~BindsUnary(args, kw) THEN Failed("TypeError")
    ELSE [ret   |-> LieTensor_Inv(args[1]),
          inner |-> <<Invoked("Inv", args[1], None)>>]

\* Faulty variant of Mul: an operand of another kind is ignored.
Mul_coercing(args, kw) ==
    IF assert_ltype(args) # "none" THEN Failed(assert_ltype(args))
    ELSE IF ~BindsBinary(args, kw, "y") THEN Failed("TypeError")
    ELSE IF Second(args, kw, "y").ltype # args[1].ltype
    THEN [ret |-> Return(args[1]), inner |-> <<>>]
    ELSE [ret   |-> LieTensor_mul(args[1], Second(args, kw, "y")),
          inner |-> <<Invoked("__mul__", args[1], Second(args, kw, "y"))>>]

\* Faulty variant of Mul: x * x.
Mul_squares(args, kw) ==
    IF assert_ltype(args) # "none" THEN Failed(assert_ltype(args))
    ELSE IF ~BindsBinary(args, kw, "y") THEN Failed("TypeError")
    ELSE [ret   |-> LieTensor_mul(args[1], args[1]),
          inner |-> <<Invoked("__mul__", args[1], args[1])>>]

\* Faulty variant of Mul: x *= y; return x.
Mul_in_place(args, kw) ==
    IF assert_ltype(args) # "none" THEN Failed(assert_ltype(args))
    ELSE IF ~BindsBinary(args, kw, "y") THEN Failed("TypeError")
    ELSE IF LieTensor_mul(args[1], Second(args, kw, "y")).err # "none"
    THEN [ret   |-> LieTensor_mul(args[1], Second(args, kw, "y")),
          inner |-> <<Invoked("__mul__", args[1], Second(args, kw, "y"))>>]
    ELSE [ret   |-> [LieTensor_mul(args[1], Second(args, kw, "y"))
                        EXCEPT !.alias = 1],
          inner |-> <<Invoked("__mul__", args[1], Second(args, kw, "y"))>>,
          args  |-> [args EXCEPT ![1] =
                        LieTensor_mul(args[1], Second(args, kw, "y")).val]]

Mul(args, kw) ==
    IF assert_ltype(args) # "none" THEN Failed(assert_ltype(args))
    ELSE IF ~BindsBinary(args, kw, "y") THEN Failed("TypeError")
    ELSE [ret   |-> LieTensor_mul(args[1], Second(args, kw, "y")),
          inner |-> <<Invoked("__mul__", args[1], Second(args, kw, "y"))>>]

\* Faulty variant of Retr: a.Retr(X).
Retr_swapped(args, kw) ==
    IF assert_ltype(args) # "none" THEN Failed(assert_ltype(args))
    ELSE IF ~BindsBinary(args, kw, "a") THEN Failed("TypeError")
    ELSE [ret   |-> LieTensor_Retr(Second(args, kw, "a"), args[1]),
          inner |-> <<Invoked("Retr", Second(args, kw, "a"), args[1])>>]

\* Faulty variant of Retr: the increment as the left factor, a.Exp() * X.
Retr_left_increment(args, kw) ==
    IF assert_ltype(args) # "none" THEN Failed(assert_ltype(args))
    ELSE IF ~BindsBinary(args, kw, "a") THEN Failed("TypeError")
    ELSE [ret   |-> IF LieTensor_Retr(args[1], Second(args, kw, "a")).err # "none"
                    THEN LieTensor_Retr(args[1], Second(args, kw, "a"))
                    ELSE LieTensor_mul(LieTensor_Exp(Second(args, kw, "a")).val,
                                       args[1]),
          inner |-> <<Invoked("Retr", args[1], Second(args, kw, "a"))>>]

Retr(args, kw) ==
    IF assert_ltype(args) # "none" THEN Failed(assert_ltype(args))
    ELSE IF ~BindsBinary(args, kw, "a") THEN Failed("TypeError")
    ELSE [ret   |-> LieTensor_Retr(args[1], Second(args, kw, "a")),
          inner |-> <<Invoked("Retr", args[1], Second(args, kw, "a"))>>]

Act(args, kw) ==
    IF assert_ltype(args) # "none" THEN Failed(assert_ltype(args))
    ELSE IF ~BindsBinary(args, kw, "p") THEN Failed("TypeError")
    ELSE [ret   |-> LieTensor_Act(args[1], Second(args, kw, "p")),
          inner |-> <<Invoked("Act", args[1], Second(args, kw, "p"))>>]

Adj(args, kw) ==
    IF assert_ltype(args) # "none" THEN Failed(assert_ltype(args))
    ELSE IF ~BindsBinary(args, kw, "a") THEN Failed("TypeError")
    ELSE [ret   |-> LieTensor_Adj(args[1], Second(args, kw, "a")),
          inner |-> <<Invoked("Adj", args[1], Second(args, kw, "a"))>>]

AdjT(args, kw) ==
    IF assert_ltype(args) # "none" THEN Failed(assert_ltype(args))
    ELSE IF ~BindsBinary(args, kw, "a") THEN Failed("TypeError")
    ELSE [ret   |-> LieTensor_AdjT(args[1], Second(args, kw, "a")),
          inner |-> <<Invoked("AdjT", args[1], Second(args, kw, "a"))>>]

\* Faulty variant of Jinvp: p.Jinvp(input).
Jinvp_swapped(args, kw) ==
    IF assert_ltype(args) # "none" THEN Failed(assert_ltype(args))
    ELSE IF ~BindsBinary(args, kw, "p") THEN Failed("TypeError")
    ELSE [ret   |-> LieTensor_Jinvp(Second(args, kw, "p"), args[1]),
          inner |-> <<Invoked("Jinvp", Second(args, kw, "p"), args[1])>>]

Jinvp(args, kw) ==
    IF assert_ltype(args) # "none" THEN Failed(assert_ltype(args))
    ELSE IF ~BindsBinary(args, kw, "p") THEN Failed("TypeError")
    ELSE [ret   |-> LieTensor_Jinvp(args[1], Second(args, kw, "p")),
          inner |-> <<Invoked("Jinvp", args[1], Second(args, kw, "p"))>>]

Jr(args, kw) ==
    IF assert_ltype(args) # "none" THEN Failed(assert_ltype(args))
    ELSE IF ~BindsUnary(args, kw) THEN Failed("TypeError")
    ELSE [ret   |-> LieTensor_Jr(args[1]),
          inner |-> <<Invoked("Jr", args[1], None)>>]

(***************************************************************************)
(* Random sampling.  A sigma is a Python float (scalar) or a list of       *)
(* floats; a generator is a position in a fixed stream of standard normal  *)
(* deviates, and gens maps each generator handle to its position.          *)
(***************************************************************************)
Scalar(s) == [scalar |-> TRUE, v |-> <<s>>]

List(v) == [scalar |-> FALSE, v |-> v]

\* the stream of standard normal deviates the tensor engine draws from
NormalStream == <<496714, -138264, 647689, 1523030, -234153, -234137, 1579213>>

Normal(pos) == NormalStream[(pos % Len(NormalStream)) + 1]

\* sigma_r = 2 sigma_d / sqrt(3)
\* Faulty variant of sigma_r: the requested sigma, not rescaled.
sigma_r_unscaled(sigma_d) == sigma_d

sigma_r(sigma_d) == Divf(2 * sigma_d, sqrt(3 * ONE))

\* accepted sigma lengths of each kind's sampler
AcceptedLen(k) ==
    CASE AlgebraOf(k) = "so3_type"   -> {1}
      [] AlgebraOf(k) = "se3_type"   -> {1, 2, 4}
      [] AlgebraOf(k) = "rxso3_type" -> {1, 2}
      [] AlgebraOf(k) = "sim3_type"  -> {1, 3, 5}

\* the per-component standard deviations of the algebra sample
ExpandSigma(k, v) ==
    LET a  == AlgebraOf(k)
        n  == Len(v)
        \* positions in v of sigma_t (x, y, z), sigma_d and sigma_s
        t  == IF n >= 4 THEN <<1, 2, 3>> ELSE <<1, 1, 1>>
        d  == CASE a = "so3_type"   -> 1
                [] a = "se3_type"   -> IF n = 1 THEN 1 ELSE IF n = 2 THEN 2 ELSE 4
                [] a = "rxso3_type" -> 1
                [] a = "sim3_type"  -> IF n = 1 THEN 1 ELSE IF n = 3 THEN 2 ELSE 4
        sc == CASE a = "rxso3_type" -> IF n = 1 THEN 1 ELSE 2
                [] a = "sim3_type"  -> IF n = 1 THEN 1 ELSE IF n = 3 THEN 3 ELSE 5
                [] OTHER            -> 1
        tr == [j \in 1..3 |-> v[t[j]]]
        ro == [j \in 1..3 |-> sigma_r(v[d])]
    IN  CASE a = "so3_type"   -> ro
          [] a = "se3_type"   -> tr \o ro
          [] a = "rxso3_type" -> ro \o <<v[sc]>>
          [] a = "sim3_type"  -> tr \o ro \o <<v[sc]>>

\* the outcome of a sampling call: its result, the samplers it invoked and
\* the generators after it
Sampled(r, calls, g) == [ret |-> r, inner |-> calls, gens |-> g]

\* <kind>.randn(*size, sigma=sigma, generator=generator); a kind outside the
\* eight has no sampler and fails fast
LieType_randn(k, size, sigma, generator, g) ==
    LET call == <<[fn |-> "randn", ltype |-> k, size |-> size, sigma |-> sigma]>>
        w    == IF k \in LieTypes THEN Width(AlgebraOf(k)) ELSE 0
        n    == Numel(size)
        pos  == g[generator]
    IN  IF k \notin LieTypes THEN Sampled(Raise("NotImplementedError"), call, g)
        ELSE IF Len(sigma.v) \notin AcceptedLen(k)
        THEN Sampled(Raise("ConfigError"), call, g)
        ELSE LET sd  == ExpandSigma(k, sigma.v)
                 alg == [i \in 1..n |->
                           [j \in 1..w |-> Mulf(sd[j], Normal(pos + (i - 1) * w + j - 1))]]
                 out == IF k \in AlgebraTypes THEN alg
                        ELSE [i \in 1..n |-> ExpElem(AlgebraOf(k), alg[i])]
             IN  Sampled(Return(LieTensor(k, size, out)), call,
                         [g EXCEPT ![generator] = pos + n * w])

\* <kind>.randn_like(*lshape, sigma=sigma, generator=generator)
LieType_randn_like(k, lshape, sigma, generator, g) ==
    LieType_randn(k, lshape, sigma, generator, g)

\* Faulty variant of the sigma checks: a single value is passed on as it is.
randn_like_sigma_no_broadcast(ltype, sigma) ==
    IF sigma.scalar THEN [err |-> "TypeError", sigma |-> sigma]
    ELSE IF Len(sigma.v) \notin AcceptedLen(ltype)
    THEN [err |-> "AssertionError", sigma |-> sigma]
    ELSE IF ltype \in {"so3_type", "SO3_type"}
    THEN [err |-> "none", sigma |-> Scalar(sigma.v[1])]
    ELSE [err |-> "none", sigma |-> sigma]

\* Faulty variant of the sigma checks: so3 and SO3 pass the list on, not
\* sigma[0].
randn_like_sigma_list_for_so3(ltype, sigma) ==
    IF sigma.scalar THEN [err |-> "TypeError", sigma |-> sigma]
    ELSE IF Len(sigma.v) \notin AcceptedLen(ltype)
    THEN [err |-> "AssertionError", sigma |-> sigma]
    ELSE IF Len(sigma.v) # 1 \/ ltype \in {"so3_type", "SO3_type"}
    THEN [err |-> "none", sigma |-> sigma]
    ELSE IF ltype \in {"sim3_type", "Sim3_type"}
    THEN [err |-> "none", sigma |-> List(<<sigma.v[1], sigma.v[1], sigma.v[1]>>)]
    ELSE [err |-> "none", sigma |-> List(<<sigma.v[1], sigma.v[1]>>)]

\* the sigma checks of randn_like: the error raised, or the sigma passed on
randn_like_sigma(ltype, sigma) ==
    IF ltype \in {"so3_type", "SO3_type"}
    THEN IF sigma.scalar THEN [err |-> "TypeError", sigma |-> sigma]
         ELSE IF Len(sigma.v) # 1 THEN [err |-> "AssertionError", sigma |-> sigma]
         ELSE [err |-> "none", sigma |-> Scalar(sigma.v[1])]
    ELSE IF ltype \in {"se3_type", "SE3_type"}
    THEN IF sigma.scalar THEN [err |-> "TypeError", sigma |-> sigma]
         ELSE IF Len(sigma.v) = 1
         THEN [err |-> "none", sigma |-> List(<<sigma.v[1], sigma.v[1]>>)]
         ELSE IF ~(Len(sigma.v) = 2 \/ Len(sigma.v) = 4)
         THEN [err |-> "AssertionError", sigma |-> sigma]
         ELSE [err |-> "none", sigma |-> sigma]
    ELSE IF ltype \in {"rxso3_type", "RxSO3_type"}
    THEN IF sigma.scalar THEN [err |-> "TypeError", sigma |-> sigma]
         ELSE IF Len(sigma.v) = 1
         THEN [err |-> "none", sigma |-> List(<<sigma.v[1], sigma.v[1]>>)]
         ELSE IF Len(sigma.v) # 2
         THEN [err |-> "AssertionError", sigma |-> sigma]
         ELSE [err |-> "none", sigma |-> sigma]
    ELSE IF ltype \in {"sim3_type", "Sim3_type"}
    THEN IF sigma.scalar THEN [err |-> "TypeError", sigma |-> sigma]
         ELSE IF Len(sigma.v) = 1
         THEN [err |-> "none",
               sigma |-> List(<<sigma.v[1], sigma.v[1], sigma.v[1]>>)]
         ELSE IF ~(Len(sigma.v) = 3 \/ Len(sigma.v) = 5)
         THEN [err |-> "AssertionError", sigma |-> sigma]
         ELSE [err |-> "none", sigma |-> sigma]
    ELSE [err |-> "none", sigma |-> sigma]

\* Faulty variant of randn_like: forwards to the sampler without validating.
randn_like_unchecked(input, sigma, generator, g) ==
    LieType_randn_like(input.ltype, input.lshape, sigma, generator, g)

\* Faulty variant of randn_like: draws before it validates the sigma.
randn_like_late_check(input, sigma, generator, g) ==
    LET c     == randn_like_sigma(input.ltype, sigma)
        drawn == LieType_randn_like(input.ltype, input.lshape,
                                    IF c.err = "none" THEN c.sigma ELSE Scalar(ONE),
                                    generator, g)
    IN  IF c.err # "none" THEN Sampled(Raise(c.err), <<>>, drawn.gens)
        ELSE drawn

\* Faulty variant of randn_like: sizes the sample by input.shape, which ends
\* with the width of the kind, instead of input.lshape.
randn_like_full_shape(input, sigma, generator, g) ==
    IF input.cls # "LieTensor" THEN Sampled(Raise("AttributeError"), <<>>, g)
    ELSE IF randn_like_sigma(input.ltype, sigma).err # "none"
    THEN Sampled(Raise(randn_like_sigma(input.ltype, sigma).err), <<>>, g)
    ELSE LieType_randn_like(input.ltype, input.lshape \o <<Width(input.ltype)>>,
                            randn_like_sigma(input.ltype, sigma).sigma,
                            generator, g)

\* Faulty variant of randn_like: the single value is repeated in the list
\* that was passed (sigma.append(sigma[0])), not in a new list.
randn_like_in_place(input, sigma, generator, g) ==
    IF input.cls # "LieTensor" THEN Sampled(Raise("AttributeError"), <<>>, g)
    ELSE IF randn_like_sigma(input.ltype, sigma).err # "none"
    THEN Sampled(Raise(randn_like_sigma(input.ltype, sigma).err), <<>>, g)
    ELSE IF randn_like_sigma(input.ltype, sigma).sigma.scalar
    THEN LieType_randn_like(input.ltype, input.lshape,
                            randn_like_sigma(input.ltype, sigma).sigma,
                            generator, g)
    ELSE [f \in {"ret", "inner", "gens", "sigma"} |->
            IF f = "sigma" THEN randn_like_sigma(input.ltype, sigma).sigma
            ELSE LieType_randn_like(input.ltype, input.lshape,
                                    randn_like_sigma(input.ltype, sigma).sigma,
                                    generator, g)[f]]

randn_like(input, sigma, generator, g) ==
    IF input.cls # "LieTensor" THEN Sampled(Raise("AttributeError"), <<>>, g)
    ELSE IF randn_like_sigma(input.ltype, sigma).err # "none"
    THEN Sampled(Raise(randn_like_sigma(input.ltype, sigma).err), <<>>, g)
    ELSE LieType_randn_like(input.ltype, input.lshape,
                            randn_like_sigma(input.ltype, sigma).sigma,
                            generator, g)

\* <kind>.identity_like(*lshape)
LieType_identity_like(k, lshape) ==
    IF k \notin LieTypes THEN Raise("NotImplementedError")
    ELSE Return(LieTensor(k, lshape, [i \in 1..Numel(lshape) |-> IdentityElem(k)]))

\* Faulty variant of identity_like: zeros shaped like the input.
identity_like_zeros(liegroup, g) ==
    IF liegroup.cls # "LieTensor" THEN Sampled(Raise("AttributeError"), <<>>, g)
    ELSE Sampled(Return(LieTensor(liegroup.ltype, liegroup.lshape,
                                  [i \in 1..Len(liegroup.data) |->
                                      [j \in 1..Len(liegroup.data[i]) |-> 0]])),
                 <<>>, g)

identity_like(liegroup, g) ==
    IF liegroup.cls # "LieTensor" THEN Sampled(Raise("AttributeError"), <<>>, g)
    ELSE Sampled(LieType_identity_like(liegroup.ltype, liegroup.lshape),
                 <<[fn |-> "identity_like", ltype |-> liegroup.ltype,
                    size |-> liegroup.lshape]>>, g)

\* <kind>.identity(*lsize): a batch of shape lsize filled with the identity
LieType_identity(k, lsize) == LieType_identity_like(k, lsize)

\* the outcome of identity_<kind>(*lsize)
Identity(k, lsize, g) ==
    Sampled(LieType_identity(k, lsize),
            <<[fn |-> "identity", ltype |-> k, size |-> lsize]>>, g)

\* Faulty variant of identity_se3: batch dimensions of size 1 are dropped.
identity_se3_squeezed(lsize, g) ==
    LET kept(n) == n # 1
    IN  Identity("se3_type", SelectSeq(lsize, kept), g)

identity_SO3(lsize, g) == Identity("SO3_type", lsize, g)

identity_so3(lsize, g) == Identity("so3_type", lsize, g)

identity_SE3(lsize, g) == Identity("SE3_type", lsize, g)

identity_se3(lsize, g) == Identity("se3_type", lsize, g)

identity_sim3(lsize, g) == Identity("sim3_type", lsize, g)

identity_Sim3(lsize, g) == Identity("Sim3_type", lsize, g)

identity_rxso3(lsize, g) == Identity("rxso3_type", lsize, g)

identity_RxSO3(lsize, g) == Identity("RxSO3_type", lsize, g)

randn_so3(size, sigma, generator, g) ==
    LieType_randn("so3_type", size, sigma, generator, g)

\* Faulty variant of randn_SO3: samples with the algebra kind, so3_type.
randn_SO3_no_Exp(size, sigma, generator, g) ==
    LieType_randn("so3_type", size, sigma, generator, g)

randn_SO3(size, sigma, generator, g) ==
    LieType_randn("SO3_type", size, sigma, generator, g)

\* Faulty variant of randn_se3: ignores the sigma it is passed.
randn_se3_default_sigma(size, sigma, generator, g) ==
    LieType_randn("se3_type", size, List(<<ONE, ONE>>), generator, g)

randn_se3(size, sigma, generator, g) ==
    LieType_randn("se3_type", size, sigma, generator, g)

randn_SE3(size, sigma, generator, g) ==
    LieType_randn("SE3_type", size, sigma, generator, g)

randn_sim3(size, sigma, generator, g) ==
    LieType_randn("sim3_type", size, sigma, generator, g)

randn_Sim3(size, sigma, generator, g) ==
    LieType_randn("Sim3_type", size, sigma, generator, g)

randn_rxso3(size, sigma, generator, g) ==
    LieType_randn("rxso3_type", size, sigma, generator, g)

randn_RxSO3(size, sigma, generator, g) ==
    LieType_randn("RxSO3_type", size, sigma, generator, g)

(***************************************************************************)
(* Calls of the sampling functions.  A behaviour is one call: Init draws   *)
(* the call and the generators' positions, the action of the called        *)
(* function runs it.                                                       *)
(***************************************************************************)
MaxSigmaLen == 5

MaxBatch == 2

MaxSeed == 1

Handles == {"default", "explicit"}

Shapes == {<<>>} \cup {<<n>> : n \in 1..MaxBatch} \cup {<<MaxBatch, 0>>}

SigmaLists ==
    {List([i \in 1..n |-> ONE \div 2]) : n \in 0..MaxSigmaLen}
    \cup {List([i \in 1..n |-> i * (ONE \div 10)]) : n \in 0..MaxSigmaLen}

Sigmas == SigmaLists \cup {Scalar(ONE \div 2)}

\* the value of the sigma parameter when the call does not pass it
DefaultSigma(fn) ==
    CASE fn = "randn_like"               -> defaults
      [] fn \in {"randn_so3", "randn_SO3"} -> Scalar(ONE)
      [] fn \in {"randn_se3", "randn_SE3"} -> List(<<ONE, ONE>>)
      [] fn \in {"randn_sim3", "randn_Sim3"} -> List(<<ONE, ONE, ONE>>)
      [] fn \in {"randn_rxso3", "randn_RxSO3"} -> List(<<ONE, ONE>>)

SigmaOf(call) == IF call.given THEN call.sigma ELSE DefaultSigma(call.fn)

ZeroData(k, lshape) ==
    [i \in 1..Numel(lshape) |-> [j \in 1..Width(k) |-> 0]]

\* an element of kind k that is not its identity
GenericElem(k) == [j \in 1..Width(k) |-> (((3 * j) % 5) - 2) * 100000]

LikeInputs ==
    {LieTensor(k, sh, [i \in 1..Numel(sh) |-> IdentityElem(k)]) :
        k \in LieTypes, sh \in Shapes}
    \cup {LieTensor(k, sh, [i \in 1..Numel(sh) |-> GenericElem(k)]) :
        k \in LieTypes, sh \in Shapes}

RandnFns ==
    {"randn_so3", "randn_SO3", "randn_se3", "randn_SE3",
     "randn_sim3", "randn_Sim3", "randn_rxso3", "randn_RxSO3"}

SigmaArgs ==
    {[given |-> TRUE, sigma |-> sg] : sg \in Sigmas}
    \cup {[given |-> FALSE, sigma |-> List(<<>>)]}

\* LieTensors tagged with a kind that is none of the eight
UnknownInputs ==
    {LieTensor("LieType", sh, [i \in 1..Numel(sh) |-> <<0, 0, 0>>]) :
        sh \in {<<>>, <<MaxBatch>>}}

IdentityFns ==
    {"identity_SO3", "identity_so3", "identity_SE3", "identity_se3",
     "identity_sim3", "identity_Sim3", "identity_rxso3", "identity_RxSO3"}

SamplingCalls ==
    {[fn |-> "randn_like", args |-> <<x>>, size |-> <<>>, given |-> sa.given,
      sigma |-> sa.sigma, generator |-> h] :
        x \in LikeInputs \cup UnknownInputs, sa \in SigmaArgs, h \in Handles}
    \cup
    {[fn |-> "identity_like", args |-> <<x>>, size |-> <<>>, given |-> FALSE,
      sigma |-> List(<<>>), generator |-> "default"] :
        x \in LikeInputs \cup UnknownInputs
              \cup {Tensor(<<>>, <<<<0, 0, 0, ONE>>>>)}}
    \cup
    {[fn |-> f, args |-> <<>>, size |-> sh, given |-> sa.given,
      sigma |-> sa.sigma, generator |-> h] :
        f \in RandnFns, sh \in Shapes, sa \in SigmaArgs, h \in Handles}
    \cup
    {[fn |-> f, args |-> <<>>, size |-> sh, given |-> FALSE,
      sigma |-> List(<<>>), generator |-> "default"] :
        f \in IdentityFns, sh \in Shapes \cup {<<MaxBatch, 1>>}}

Init ==
    /\ pc = "call"
    /\ defaults = List(<<ONE>>)
    /\ arg \in SamplingCalls
    /\ gens \in {[h \in Handles |-> n] : n \in 0..MaxSeed}
    /\ ret = Return(None)
    /\ inner = <<>>

Finish(r) ==
    /\ ret' = r.ret
    /\ inner' = r.inner
    /\ gens' = r.gens
    /\ pc' = "done"
    /\ arg' = [arg EXCEPT !.args = OperandsAfter(r, arg.args),
                          !.sigma = IF arg.given THEN SigmaAfter(r, arg.sigma)
                                    ELSE arg.sigma]
    /\ defaults' = IF arg.given THEN defaults ELSE SigmaAfter(r, defaults)

Call_randn_like ==
    /\ pc = "call" /\ arg.fn = "randn_like"
    /\ Finish(randn_like(arg.args[1], SigmaOf(arg), arg.generator, gens))

Call_identity_like ==
    /\ pc = "call" /\ arg.fn = "identity_like"
    /\ Finish(identity_like(arg.args[1], gens))

Call_randn_so3 ==
    /\ pc = "call" /\ arg.fn = "randn_so3"
    /\ Finish(randn_so3(arg.size, SigmaOf(arg), arg.generator, gens))

Call_randn_SO3 ==
    /\ pc = "call" /\ arg.fn = "randn_SO3"
    /\ Finish(randn_SO3(arg.size, SigmaOf(arg), arg.generator, gens))

Call_randn_se3 ==
    /\ pc = "call" /\ arg.fn = "randn_se3"
    /\ Finish(randn_se3(arg.size, SigmaOf(arg), arg.generator, gens))

Call_randn_SE3 ==
    /\ pc = "call" /\ arg.fn = "randn_SE3"
    /\ Finish(randn_SE3(arg.size, SigmaOf(arg), arg.generator, gens))

Call_randn_sim3 ==
    /\ pc = "call" /\ arg.fn = "randn_sim3"
    /\ Finish(randn_sim3(arg.size, SigmaOf(arg), arg.generator, gens))

Call_randn_Sim3 ==
    /\ pc = "call" /\ arg.fn = "randn_Sim3"
    /\ Finish(randn_Sim3(arg.size, SigmaOf(arg), arg.generator, gens))

Call_randn_rxso3 ==
    /\ pc = "call" /\ arg.fn = "randn_rxso3"
    /\ Finish(randn_rxso3(arg.size, SigmaOf(arg), arg.generator, gens))

Call_randn_RxSO3 ==
    /\ pc = "call" /\ arg.fn = "randn_RxSO3"
    /\ Finish(randn_RxSO3(arg.size, SigmaOf(arg), arg.generator, gens))

Call_identity_SO3 ==
    /\ pc = "call" /\ arg.fn = "identity_SO3"
    /\ Finish(identity_SO3(arg.size, gens))

Call_identity_so3 ==
    /\ pc = "call" /\ arg.fn = "identity_so3"
    /\ Finish(identity_so3(arg.size, gens))

Call_identity_SE3 ==
    /\ pc = "call" /\ arg.fn = "identity_SE3"
    /\ Finish(identity_SE3(arg.size, gens))

Call_identity_se3 ==
    /\ pc = "call" /\ arg.fn = "identity_se3"
    /\ Finish(identity_se3(arg.size, gens))

Call_identity_sim3 ==
    /\ pc = "call" /\ arg.fn = "identity_sim3"
    /\ Finish(identity_sim3(arg.size, gens))

Call_identity_Sim3 ==
    /\ pc = "call" /\ arg.fn = "identity_Sim3"
    /\ Finish(identity_Sim3(arg.size, gens))

Call_identity_rxso3 ==
    /\ pc = "call" /\ arg.fn = "identity_rxso3"
    /\ Finish(identity_rxso3(arg.size, gens))

Call_identity_RxSO3 ==
    /\ pc = "call" /\ arg.fn = "identity_RxSO3"
    /\ Finish(identity_RxSO3(arg.size, gens))

Next ==
    \/ Call_randn_like
    \/ Call_identity_like
    \/ Call_randn_so3
    \/ Call_randn_SO3
    \/ Call_randn_se3
    \/ Call_randn_SE3
    \/ Call_randn_sim3
    \/ Call_randn_Sim3
    \/ Call_randn_rxso3
    \/ Call_randn_RxSO3
    \/ Call_identity_SO3
    \/ Call_identity_so3
    \/ Call_identity_SE3
    \/ Call_identity_se3
    \/ Call_identity_sim3
    \/ Call_identity_Sim3
    \/ Call_identity_rxso3
    \/ Call_identity_RxSO3

Spec == Init /\ [][Next]_vars

(***************************************************************************)
(* Calls of the kernels.  Init draws one call of Exp, Log, Inv, Mul or     *)
(* Retr; group operands are images under Exp of the algebra operands (and  *)
(* remember the operand they come from) or exact special values.           *)
(***************************************************************************)
RotVecs ==
    {<<0, 0, 0>>, <<20000, -10000, 5000>>, <<30000, 40000, 0>>,
     <<300000, -400000, 1200000>>, <<1800000, -1800000, 1800000>>,
     <<0, 0, 3500000>>}

\* rotation vectors of norm 0, eps / 2, eps, 2 eps and 1 along one axis
TestNorms == {0, eps \div 2, eps, 2 * eps, ONE}

NormVecs == {<<(3 * n) \div 5, (4 * n) \div 5, 0>> : n \in TestNorms}

TransVecs == {<<0, 0, 0>>, <<500000, -1200000, 700000>>}

LogScales == {0, eps, eps + 1, -900000}

AlgebraElems(k) ==
    CASE k = "so3_type"   -> RotVecs \cup {<<PI, 0, 0>>, <<0, -PI, 0>>} \cup NormVecs
      [] k = "se3_type"   -> {t \o r : t \in TransVecs, r \in RotVecs}
      [] k = "rxso3_type" -> {r \o <<sg>> : r \in RotVecs, sg \in LogScales}
      [] k = "sim3_type"  ->
           {t \o r \o <<sg>> : t \in TransVecs, r \in RotVecs, sg \in LogScales}

\* the elements batches are made of: one per branch of the kernels
BatchElems(k) ==
    CASE k = "so3_type"   -> {<<0, 0, 0>>, <<300000, -400000, 1200000>>}
      [] k = "se3_type"   ->
           {<<0, 0, 0, 0, 0, 0>>,
            <<500000, -1200000, 700000, 300000, -400000, 1200000>>}
      [] k = "rxso3_type" ->
           {<<0, 0, 0, 0>>, <<300000, -400000, 1200000, -900000>>}
      [] k = "sim3_type"  ->
           {<<500000, -1200000, 700000, 20000, -10000, 5000, eps>>,
            <<500000, -1200000, 700000, 300000, -400000, 1200000, -900000>>}

Single(k, e) == LieTensor(k, <<>>, <<e>>)

AlgebraInputs ==
    UNION {{Single(k, e) : e \in AlgebraElems(k)} : k \in AlgebraTypes}
    \cup UNION {{LieTensor(k, <<MaxBatch>>, d) : d \in [1..MaxBatch -> BatchElems(k)]} :
                   k \in AlgebraTypes}
    \cup {LieTensor(k, <<MaxBatch, 0>>, <<>>) : k \in AlgebraTypes}

\* rotations by pi (w = 0) and the other quaternion of a rotation (w < 0)
SpecialGroupInputs ==
    {Single(k, IdentityElem(k)) : k \in GroupTypes}
    \cup {Single("SO3_type", <<ONE, 0, 0, 0>>),
          Single("SO3_type", <<0, -600000, 0, -800000>>),
          Single("SE3_type", <<500000, -1200000, 700000, 0, ONE, 0, 0>>)}

GroupInputs ==
    {[X |-> LieTensor_Exp(x).val, from |-> x] : x \in AlgebraInputs}
    \cup {[X |-> X, from |-> None] : X \in SpecialGroupInputs}

ZeroLike(k, X) == LieTensor(k, X.lshape, ZeroData(k, X.lshape))

IdentityLike(k, X) ==
    LieTensor(k, X.lshape, [i \in 1..Len(X.data) |-> IdentityElem(k)])

\* operands that are not composable with X, or not retractable along
OtherOperands(X) ==
    {IdentityLike(k, X) : k \in GroupTypes \ {X.ltype}}
    \cup {ZeroLike(Paired(X.ltype), X),
          Tensor(X.lshape, X.data),
          LieTensor(X.ltype, <<MaxBatch + 1>>,
                    [i \in 1..(MaxBatch + 1) |-> IdentityElem(X.ltype)])}

\* a batch of points, and a batch of tangents of X's paired kind, shaped like X
PointsLike(X) ==
    Tensor(X.lshape, [i \in 1..Len(X.data) |-> <<i * 300000, -200000, 500000>>])

TangentLike(X) ==
    LieTensor(Paired(X.ltype), X.lshape,
              [i \in 1..Len(X.data) |->
                  [j \in 1..Width(Paired(X.ltype)) |->
                      (((7 * i + 3 * j) % 5) - 2) * 100000]])

KernelCall(fn, args, kw, from) ==
    [fn |-> fn, args |-> args, kw |-> kw, from |-> from]

\* the calls on a group operand g.X that comes from g.from
CallsOn(g) ==
    {KernelCall("Log", <<g.X>>, {}, g.from),
     KernelCall("Inv", <<g.X>>, {}, g.from),
     KernelCall("Mul", <<g.X, LieTensor_Inv(g.X).val>>, {}, g.from),
     KernelCall("Mul", <<g.X, IdentityLike(g.X.ltype, g.X)>>, {}, g.from),
     KernelCall("Retr", <<g.X, ZeroLike(Paired(g.X.ltype), g.X)>>, {}, g.from),
     KernelCall("Retr", <<g.X, TangentLike(g.X)>>, {}, g.from),
     KernelCall("Act", <<g.X, PointsLike(g.X)>>, {}, g.from),
     KernelCall("Adj", <<g.X, TangentLike(g.X)>>, {}, g.from),
     KernelCall("AdjT", <<g.X, TangentLike(g.X)>>, {}, g.from),
     KernelCall("Jinvp", <<g.X, TangentLike(g.X)>>, {}, g.from),
     KernelCall("Jr", <<g.X>>, {}, g.from)}

\* calls with an operand of the wrong kind, class or shape, or bound by keyword
MiscallsOn(X) ==
    UNION {{KernelCall("Mul", <<X, y>>, {}, None),
            KernelCall("Mul", <<X>>, {[name |-> "y", val |-> y]}, None),
            KernelCall("Retr", <<X, y>>, {}, None)} : y \in OtherOperands(X)}
    \cup UNION {{KernelCall(f, <<Tensor(X.lshape, X.data)>>, {}, None),
                 KernelCall(f, <<>>, {[name |-> "x", val |-> X]}, None),
                 KernelCall(f, <<X, X>>, {}, None)} :
                   f \in {"Exp", "Log", "Inv", "Jr"}}
    \cup {KernelCall(f, <<Tensor(X.lshape, X.data), y>>, {}, None) :
             f \in {"Mul", "Retr", "Act", "Adj", "AdjT", "Jinvp"},
             y \in {X, TangentLike(X), PointsLike(X)}}
    \cup {KernelCall(f, <<X, PointsLike(X)>>, {}, None) : f \in {"AdjT", "Jinvp"}}
    \cup {KernelCall("Mul", <<>>, {[name |-> "x", val |-> X],
                                   [name |-> "y", val |-> X]}, None),
          KernelCall("Retr", <<>>, {[name |-> "X", val |-> X],
                                    [name |-> "a", val |-> TangentLike(X)]}, None),
          KernelCall("Act", <<>>, {[name |-> "X", val |-> X],
                                   [name |-> "p", val |-> PointsLike(X)]}, None),
          KernelCall("Adj", <<>>, {[name |-> "X", val |-> X],
                                   [name |-> "a", val |-> TangentLike(X)]}, None),
          KernelCall("AdjT", <<>>, {[name |-> "X", val |-> X],
                                    [name |-> "a", val |-> TangentLike(X)]}, None),
          KernelCall("Jinvp", <<>>, {[name |-> "input", val |-> X],
                                     [name |-> "p", val |-> TangentLike(X)]}, None)}
    \cup {KernelCall("Exp", <<X>>, {}, None),
          KernelCall("Log", <<ZeroLike(Paired(X.ltype), X)>>, {}, None),
          KernelCall("Act", <<X, TangentLike(X)>>, {}, None),
          KernelCall("Act", <<X>>, {[name |-> "p", val |-> PointsLike(X)]}, None),
          KernelCall("Adj", <<X, PointsLike(X)>>, {}, None),
          KernelCall("AdjT", <<X, X>>, {}, None),
          KernelCall("Jinvp", <<TangentLike(X), X>>, {}, None)}

\* a value of kind k: the identity for X, a generic element for p
GenericOf(k) == Single(k, GenericElem(k))

\* Jinvp on every pair of kinds
KindPairCalls ==
    {KernelCall("Jinvp", <<Single(k1, IdentityElem(k1)), GenericOf(k2)>>, {}, None) :
        k1 \in LieTypes, k2 \in LieTypes}

KernelCalls ==
    {KernelCall("Exp", <<x>>, {}, None) : x \in AlgebraInputs}
    \cup UNION {CallsOn(g) : g \in GroupInputs}
    \cup UNION {MiscallsOn(X) : X \in SpecialGroupInputs}
    \cup KindPairCalls

\* calls of randn_like and identity_like on a value of each kind
LikeKernelCalls ==
    {[fn |-> f, args |-> <<LieTensor(k, <<MaxBatch>>,
                                     [i \in 1..MaxBatch |-> GenericElem(k)])>>,
      kw |-> {}, from |-> None, size |-> <<>>, given |-> FALSE,
      sigma |-> List(<<>>), generator |-> "default"] :
        f \in {"randn_like", "identity_like"}, k \in LieTypes}

InitKernel ==
    /\ pc = "call"
    /\ defaults = List(<<ONE>>)
    /\ arg \in KernelCalls \cup LikeKernelCalls
    /\ gens = [h \in Handles |-> 0]
    /\ ret = Return(None)
    /\ inner = <<>>

Done(r) ==
    /\ ret' = r.ret
    /\ inner' = r.inner
    /\ pc' = "done"
    /\ arg' = [arg EXCEPT !.args = OperandsAfter(r, arg.args)]
    /\ UNCHANGED <<gens, defaults>>

Call_Exp == pc = "call" /\ arg.fn = "Exp" /\ Done(Exp(arg.args, arg.kw))

Call_Log == pc = "call" /\ arg.fn = "Log" /\ Done(Log(arg.args, arg.kw))

Call_Inv == pc = "call" /\ arg.fn = "Inv" /\ Done(Inv(arg.args, arg.kw))

Call_Mul == pc = "call" /\ arg.fn = "Mul" /\ Done(Mul(arg.args, arg.kw))

Call_Retr == pc = "call" /\ arg.fn = "Retr" /\ Done(Retr(arg.args, arg.kw))

Call_Act == pc = "call" /\ arg.fn = "Act" /\ Done(Act(arg.args, arg.kw))

Call_Adj == pc = "call" /\ arg.fn = "Adj" /\ Done(Adj(arg.args, arg.kw))

Call_AdjT == pc = "call" /\ arg.fn = "AdjT" /\ Done(AdjT(arg.args, arg.kw))

Call_Jinvp == pc = "call" /\ arg.fn = "Jinvp" /\ Done(Jinvp(arg.args, arg.kw))

Call_Jr == pc = "call" /\ arg.fn = "Jr" /\ Done(Jr(arg.args, arg.kw))

NextKernel ==
    \/ Call_Exp
    \/ Call_Log
    \/ Call_Inv
    \/ Call_Mul
    \/ Call_Retr
    \/ Call_Act
    \/ Call_Adj
    \/ Call_AdjT
    \/ Call_Jinvp
    \/ Call_Jr
    \/ Call_randn_like
    \/ Call_identity_like

SpecKernel == InitKernel /\ [][NextKernel]_vars

(***************************************************************************)
(* Concurrent calls of the samplers.  Each thread makes one call; pc, arg,  *)
(* ret and inner hold one entry per thread.  A generator is the integer 0   *)
(* (the process-wide default generator, used when the call passes none) or  *)
(* t (the generator owned by thread t).  The draw of a call is the tensor   *)
(* engine's: it locks the generator, reads its position, advances it by     *)
(* the numbers drawn and unlocks it (section 5: draws are serialized).      *)
(***************************************************************************)
MaxThreads == 2

Threads == 1..MaxThreads

ThreadCalls(t) ==
    {[fn |-> f, args |-> <<>>, size |-> <<MaxBatch>>, given |-> sa.given,
      sigma |-> sa.sigma, generator |-> h] :
        f \in {"randn_so3", "randn_SE3"},
        sa \in {[given |-> FALSE, sigma |-> List(<<>>)],
                [given |-> TRUE, sigma |-> List(<<>>)]},
        h \in {0, t}}

\* the sampler of kind k, called directly
KindSampler(k, size, sigma, generator, g) ==
    CASE k = "so3_type"   -> randn_so3(size, sigma, generator, g)
      [] k = "SO3_type"   -> randn_SO3(size, sigma, generator, g)
      [] k = "se3_type"   -> randn_se3(size, sigma, generator, g)
      [] k = "SE3_type"   -> randn_SE3(size, sigma, generator, g)
      [] k = "sim3_type"  -> randn_sim3(size, sigma, generator, g)
      [] k = "Sim3_type"  -> randn_Sim3(size, sigma, generator, g)
      [] k = "rxso3_type" -> randn_rxso3(size, sigma, generator, g)
      [] k = "RxSO3_type" -> randn_RxSO3(size, sigma, generator, g)

\* the name of the sampler of kind k
KindSamplerName(k) ==
    CASE k = "so3_type"   -> "randn_so3"
      [] k = "SO3_type"   -> "randn_SO3"
      [] k = "se3_type"   -> "randn_se3"
      [] k = "SE3_type"   -> "randn_SE3"
      [] k = "sim3_type"  -> "randn_sim3"
      [] k = "Sim3_type"  -> "randn_Sim3"
      [] k = "rxso3_type" -> "randn_rxso3"
      [] k = "RxSO3_type" -> "randn_RxSO3"

\* the kind a sampler returns
SamplerKind(fn) ==
    CHOOSE k \in LieTypes : KindSamplerName(k) = fn

\* the call of thread t when its generator stands at position pos
ThreadCall(t, pos) ==
    IF arg[t].fn = "randn_so3"
    THEN randn_so3(arg[t].size, SigmaOf(arg[t]), arg[t].generator,
                   [h \in {arg[t].generator} |-> pos])
    ELSE randn_SE3(arg[t].size, SigmaOf(arg[t]), arg[t].generator,
                   [h \in {arg[t].generator} |-> pos])

\* the generator's lock is held by a thread between its lock and its unlock
LockHeld(h) ==
    \E u \in Threads :
        arg[u].generator = h /\ pc[u] \in {"locked", "read", "written"}

\* Faulty variant of the lock: never waits.
CanLock_unguarded(h) == TRUE

CanLock(h) == ~LockHeld(h)

InitThreads ==
    /\ pc = [t \in Threads |-> "call"]
    /\ defaults = List(<<ONE>>)
    /\ arg \in [Threads -> UNION {ThreadCalls(t) : t \in Threads}]
    /\ \A t \in Threads : arg[t] \in ThreadCalls(t)
    /\ gens \in {[h \in 0..MaxThreads |-> n] : n \in 0..MaxSeed}
    /\ ret = [t \in Threads |-> Return(None)]
    /\ inner = [t \in Threads |-> <<>>]

\* the position the draw of thread t starts from: the one it read, or the
\* generator's current one before it has read
ThreadPosition(t) ==
    IF inner[t] = <<>> THEN gens[arg[t].generator] ELSE inner[t][1].from

\* the sampler checks its sigma before it draws
T_Call(t, call) ==
    /\ pc[t] = "call"
    /\ IF call.ret.err # "none"
       THEN /\ pc' = [pc EXCEPT ![t] = "done"]
            /\ ret' = [ret EXCEPT ![t] = call.ret]
       ELSE /\ pc' = [pc EXCEPT ![t] = "waiting"]
            /\ UNCHANGED ret
    /\ UNCHANGED <<arg, gens, inner, defaults>>

T_Lock(t) ==
    /\ pc[t] = "waiting"
    /\ CanLock(arg[t].generator)
    /\ pc' = [pc EXCEPT ![t] = "locked"]
    /\ UNCHANGED <<arg, ret, gens, inner, defaults>>

T_Read(t, call) ==
    /\ pc[t] = "locked"
    /\ inner' = [inner EXCEPT ![t] =
                    <<[handle |-> arg[t].generator,
                       from   |-> gens[arg[t].generator],
                       count  |-> call.gens[arg[t].generator]
                                      - gens[arg[t].generator]]>>]
    /\ pc' = [pc EXCEPT ![t] = "read"]
    /\ UNCHANGED <<arg, ret, gens, defaults>>

T_Write(t) ==
    /\ pc[t] = "read"
    /\ gens' = [gens EXCEPT ![arg[t].generator] =
                    inner[t][1].from + inner[t][1].count]
    /\ pc' = [pc EXCEPT ![t] = "written"]
    /\ UNCHANGED <<arg, ret, inner, defaults>>

T_Unlock(t, call) ==
    /\ pc[t] = "written"
    /\ ret' = [ret EXCEPT ![t] = call.ret]
    /\ pc' = [pc EXCEPT ![t] = "done"]
    /\ UNCHANGED <<arg, gens, inner, defaults>>

NextThreads ==
    \/ \E t \in Threads : T_Call(t, ThreadCall(t, ThreadPosition(t)))
    \/ \E t \in Threads : T_Lock(t)
    \/ \E t \in Threads : T_Read(t, ThreadCall(t, ThreadPosition(t)))
    \/ \E t \in Threads : T_Write(t)
    \/ \E t \in Threads : T_Unlock(t, ThreadCall(t, ThreadPosition(t)))

SpecThreads == InitThreads /\ [][NextThreads]_vars

(***************************************************************************)
(* A sequence of randn_like calls by one caller.  arg.seq numbers the       *)
(* calls; the default sigma list and the generators live on between calls.  *)
(***************************************************************************)
MaxCalls == 2

SeqSigmaArgs ==
    {[given |-> FALSE, sigma |-> List(<<>>)],
     [given |-> TRUE, sigma |-> List(<<>>)],
     [given |-> TRUE, sigma |-> List(<<ONE \div 2>>)],
     [given |-> TRUE, sigma |-> List(<<ONE \div 10, ONE \div 5>>)]}

SeqCalls(n) ==
    {[fn |-> "randn_like", args |-> <<LieTensor(k, <<>>, <<IdentityElem(k)>>)>>,
      size |-> <<>>, given |-> sa.given, sigma |-> sa.sigma,
      generator |-> "default", seq |-> n] :
        k \in LieTypes, sa \in SeqSigmaArgs}

InitSeq ==
    /\ pc = "call"
    /\ defaults = List(<<ONE>>)
    /\ arg \in SeqCalls(1)
    /\ gens \in {[h \in Handles |-> n] : n \in 0..MaxSeed}
    /\ ret = Return(None)
    /\ inner = <<>>

\* the caller makes its next call
NextCall ==
    /\ pc = "done" /\ arg.seq < MaxCalls
    /\ arg' \in SeqCalls(arg.seq + 1)
    /\ pc' = "call"
    /\ ret' = Return(None)
    /\ inner' = <<>>
    /\ UNCHANGED <<gens, defaults>>

NextSeq ==
    \/ Call_randn_like
    \/ NextCall

SpecSeq == InitSeq /\ [][NextSeq]_vars

(***************************************************************************)
(* Properties of the sampling functions.                                   *)
(***************************************************************************)
\* the sigma lengths the specification accepts for a kind
SpecSigmaLengths(k) ==
    CASE k \in {"so3_type", "SO3_type"}     -> {1}
      [] k \in {"se3_type", "SE3_type"}     -> {1, 2, 4}
      [] k \in {"rxso3_type", "RxSO3_type"} -> {1, 2}
      [] k \in {"sim3_type", "Sim3_type"}   -> {1, 3, 5}

RandnLikeDone ==
    /\ pc = "done" /\ arg.fn = "randn_like" /\ ~SigmaOf(arg).scalar
    /\ arg.args[1].ltype \in LieTypes

\* C1: for each of the eight kinds and every sigma list, randn_like passes
\* validation (reaches the kind's sampler and returns a sample) if and only
\* if len(sigma) is an accepted length of the input's kind; for every other
\* length, 0 included, it raises and returns no sample.
C1_SigmaLengthValidation ==
    RandnLikeDone =>
        LET ok == Len(SigmaOf(arg).v) \in SpecSigmaLengths(arg.args[1].ltype)
        IN  /\ ok => /\ inner # <<>>
                     /\ ret.err = "none"
                     /\ ret.val.cls = "LieTensor"
            /\ ~ok => /\ inner = <<>>
                      /\ ret.err # "none"
                      /\ ret.val = None

C1_Witness ==
    /\ RandnLikeDone
    /\ arg.args[1].ltype = "SE3_type"
    /\ Len(SigmaOf(arg).v) = 4
    /\ ret.err = "none"
    /\ Len(ret.val.data) = MaxBatch

\* C2: randn_se3 and randn_SE3 called with a sigma list of length 3 raise
\* ConfigError and return nothing; with length 1, 2 or 4 they return a value
\* of kind se3 (resp. SE3) of the requested size.
C2_se3SigmaLength ==
    (pc = "done" /\ arg.fn \in {"randn_se3", "randn_SE3"} /\ arg.given
     /\ ~arg.sigma.scalar) =>
        /\ Len(arg.sigma.v) = 3 =>
              ret.err = "ConfigError" /\ ret.val = None
        /\ Len(arg.sigma.v) \in {1, 2, 4} =>
              /\ ret.err = "none"
              /\ ret.val.cls = "LieTensor"
              /\ ret.val.ltype =
                    (IF arg.fn = "randn_se3" THEN "se3_type" ELSE "SE3_type")
              /\ ret.val.lshape = arg.size
              /\ \A i \in 1..Len(ret.val.data) :
                    Len(ret.val.data[i]) = Width(ret.val.ltype)

C2_Witness ==
    /\ pc = "done" /\ arg.fn = "randn_se3" /\ arg.given
    /\ ~arg.sigma.scalar /\ Len(arg.sigma.v) = 3
    /\ ret.err = "ConfigError"

\* C10: a randn_like call whose sigma fails the length check is rejected
\* before the sampler is invoked: the step of the call leaves every
\* generator where it was, invokes no sampler and returns no sample.
C10_RejectedAtEntry ==
    [][(arg.fn = "randn_like" /\ ~SigmaOf(arg).scalar
        /\ arg.args[1].ltype \in LieTypes
        /\ Len(SigmaOf(arg).v) \notin SpecSigmaLengths(arg.args[1].ltype))
       => (/\ gens' = gens
           /\ inner' = <<>>
           /\ ret'.err # "none"
           /\ ret'.val = None)]_vars

C10_Witness ==
    /\ RandnLikeDone
    /\ arg.generator = "explicit"
    /\ arg.args[1].ltype = "sim3_type"
    /\ Len(SigmaOf(arg).v) = 2
    /\ ret.err = "AssertionError"
    /\ gens["explicit"] = MaxSeed

\* the identity value of each kind (section 3), written out
IdentityTable(k) ==
    CASE k = "so3_type"   -> <<0, 0, 0>>
      [] k = "se3_type"   -> <<0, 0, 0, 0, 0, 0>>
      [] k = "sim3_type"  -> <<0, 0, 0, 0, 0, 0, 0>>
      [] k = "rxso3_type" -> <<0, 0, 0, 0>>
      [] k = "SO3_type"   -> <<0, 0, 0, ONE>>
      [] k = "SE3_type"   -> <<0, 0, 0, 0, 0, 0, ONE>>
      [] k = "Sim3_type"  -> <<0, 0, 0, 0, 0, 0, ONE, ONE>>
      [] k = "RxSO3_type" -> <<0, 0, 0, ONE, ONE>>

\* C13: identity_like(x), for x of any of the eight kinds, returns a value
\* of x's kind and batch shape with one element per element of x, each the
\* identity value of the kind, whatever x holds.
C13_IdentityLike ==
    (pc = "done" /\ arg.fn = "identity_like"
     /\ arg.args[1].cls = "LieTensor" /\ arg.args[1].ltype \in LieTypes) =>
        /\ ret.err = "none"
        /\ ret.val.cls = "LieTensor"
        /\ ret.val.ltype = arg.args[1].ltype
        /\ ret.val.lshape = arg.args[1].lshape
        /\ Len(ret.val.data) = Len(arg.args[1].data)
        /\ \A i \in 1..Len(ret.val.data) :
              ret.val.data[i] = IdentityTable(arg.args[1].ltype)

C13_Witness ==
    /\ pc = "done" /\ arg.fn = "identity_like"
    /\ arg.args[1].ltype = "Sim3_type"
    /\ arg.args[1].lshape = <<MaxBatch>>
    /\ arg.args[1].data[1] # <<0, 0, 0, 0, 0, 0, ONE, ONE>>
    /\ ret.val.data = [i \in 1..MaxBatch |-> <<0, 0, 0, 0, 0, 0, ONE, ONE>>]

\* the sigma of the direct call that corresponds to a randn_like call: the
\* sampler's own default when none is passed, the number in the list for
\* so3 and SO3 (whose samplers take a number), the list otherwise
DirectSigma(call) ==
    IF ~call.given THEN DefaultSigma(KindSamplerName(call.args[1].ltype))
    ELSE IF call.args[1].ltype \in {"so3_type", "SO3_type"}
    THEN Scalar(call.sigma.v[1])
    ELSE call.sigma

\* C14: randn_like(x, sigma) with a valid sigma returns what the sampler of
\* x's kind returns when called with size x.lshape, that sigma and the same
\* generator in the same state, and leaves the generators as that call does;
\* the result has x's kind and batch shape and does not depend on what x
\* holds.
C14_RandnLikeIsKindSampler ==
    [][(pc = "call" /\ arg.fn = "randn_like"
        /\ arg.args[1].cls = "LieTensor" /\ arg.args[1].ltype \in LieTypes
        /\ ~SigmaOf(arg).scalar
        /\ Len(SigmaOf(arg).v) \in SpecSigmaLengths(arg.args[1].ltype))
       => (/\ ret' = KindSampler(arg.args[1].ltype, arg.args[1].lshape,
                                 DirectSigma(arg), arg.generator, gens).ret
           /\ gens' = KindSampler(arg.args[1].ltype, arg.args[1].lshape,
                                  DirectSigma(arg), arg.generator, gens).gens
           /\ ret'.err = "none"
           /\ ret'.val.ltype = arg.args[1].ltype
           /\ ret'.val.lshape = arg.args[1].lshape)]_vars

\* a single-value sigma on a batch of SE3 values that are not the identity
C14_Witness ==
    /\ RandnLikeDone /\ arg.given
    /\ arg.args[1].ltype = "SE3_type"
    /\ arg.args[1].lshape = <<MaxBatch>>
    /\ arg.args[1].data[1] # IdentityElem("SE3_type")
    /\ Len(arg.sigma.v) = 1
    /\ ret.err = "none"
    /\ ret.val.ltype = "SE3_type" /\ ret.val.lshape = <<MaxBatch>>
    /\ ret.val.data[1] # ret.val.data[MaxBatch]

\* a valid randn_like call on a value of one of the eight kinds, completed
ValidRandnLikeDone ==
    /\ RandnLikeDone
    /\ arg.args[1].cls = "LieTensor" /\ arg.args[1].ltype \in LieTypes
    /\ Len(SigmaOf(arg).v) \in SpecSigmaLengths(arg.args[1].ltype)

\* the number of blocks of a kind (translation, rotation, scale) and of
\* per-axis entries (translation x, y, z, rotation, scale)
BlockLen(k) ==
    CASE AlgebraOf(k) = "so3_type"   -> 1
      [] AlgebraOf(k) = "se3_type"   -> 2
      [] AlgebraOf(k) = "rxso3_type" -> 2
      [] AlgebraOf(k) = "sim3_type"  -> 3

PerAxisLen(k) ==
    CASE AlgebraOf(k) = "so3_type"   -> 1
      [] AlgebraOf(k) = "se3_type"   -> 4
      [] AlgebraOf(k) = "rxso3_type" -> 2
      [] AlgebraOf(k) = "sim3_type"  -> 5

\* C20 as amended: randn_like hands a single-value sigma [s] to the sampler
\* as one entry per block of the kind, each equal to s: [s, s] for se3/SE3
\* and rxso3/RxSO3, [s, s, s] for sim3/Sim3, and the number s for so3/SO3; a
\* sigma of an accepted multi-value length is handed over unchanged.
C20_BroadcastPerBlock ==
    ValidRandnLikeDone =>
        /\ Len(inner) = 1
        /\ IF Len(SigmaOf(arg).v) = 1
           THEN /\ Len(inner[1].sigma.v) = BlockLen(arg.args[1].ltype)
                /\ \A j \in 1..Len(inner[1].sigma.v) :
                      inner[1].sigma.v[j] = SigmaOf(arg).v[1]
                /\ inner[1].sigma.scalar <=>
                      arg.args[1].ltype \in {"so3_type", "SO3_type"}
           ELSE inner[1].sigma = SigmaOf(arg)

C20_Witness ==
    /\ ValidRandnLikeDone /\ arg.given
    /\ arg.args[1].ltype = "sim3_type"
    /\ arg.sigma = List(<<ONE \div 2>>)
    /\ inner[1].sigma = List(<<ONE \div 2, ONE \div 2, ONE \div 2>>)
    /\ ret.err = "none"

\* C20 as stated: a single-value sigma [s] is handed to the sampler in the
\* per-axis form (4 entries for se3/SE3, 5 for sim3/Sim3, 2 for rxso3/RxSO3),
\* each entry equal to s; an accepted multi-value sigma is handed over
\* unchanged.
C20_BroadcastPerAxis ==
    ValidRandnLikeDone =>
        /\ Len(inner) = 1
        /\ IF Len(SigmaOf(arg).v) = 1
           THEN /\ Len(inner[1].sigma.v) = PerAxisLen(arg.args[1].ltype)
                /\ \A j \in 1..Len(inner[1].sigma.v) :
                      inner[1].sigma.v[j] = SigmaOf(arg).v[1]
           ELSE inner[1].sigma = SigmaOf(arg)

\* C17 as stated: randn_like and identity_like called on a LieTensor whose
\* kind is none of the eight raise at entry: randn_like before any method of
\* the kind is invoked with an unvalidated sigma, and neither returns a value.
C17_UnknownKindFailsFast ==
    (pc = "done" /\ arg.fn \in {"randn_like", "identity_like"}
     /\ arg.args[1].cls = "LieTensor" /\ arg.args[1].ltype \notin LieTypes) =>
        /\ ret.err # "none"
        /\ ret.val = None
        /\ arg.fn = "randn_like" => inner = <<>>

GroupSamplers == {"randn_SO3", "randn_SE3", "randn_Sim3", "randn_RxSO3"}

\* the call of the paired algebra sampler with the operands of the current
\* call of a group sampler, from generators g
AlgebraCall(g) ==
    KindSampler(Paired(SamplerKind(arg.fn)), arg.size, SigmaOf(arg),
                arg.generator, g)

\* C19: each group sampler (randn_SO3, randn_SE3, randn_Sim3, randn_RxSO3)
\* returns Exp of what the paired algebra sampler returns for the same size,
\* sigma and generator state (and raises when that sampler raises), and
\* leaves the generators as the algebra sampler does.
C19_GroupSampleIsExp ==
    [][(pc = "call" /\ arg.fn \in GroupSamplers)
       => (/\ gens' = AlgebraCall(gens).gens
           /\ IF AlgebraCall(gens).ret.err = "none"
              THEN ret' = Exp(<<AlgebraCall(gens).ret.val>>, {}).ret
              ELSE ret' = AlgebraCall(gens).ret)]_vars

C19_Witness ==
    /\ pc = "done" /\ arg.fn = "randn_Sim3" /\ arg.given
    /\ Len(arg.sigma.v) = 5 /\ arg.size = <<MaxBatch>>
    /\ arg.generator = "explicit"
    /\ ret.err = "none" /\ ret.val.ltype = "Sim3_type"
    /\ Len(ret.val.data) = MaxBatch
    /\ ret.val.data[1] # IdentityElem("Sim3_type")
    /\ gens["explicit"] > gens["default"]

(***************************************************************************)
(* Properties of the kernels.                                              *)
(***************************************************************************)
\* the tolerance of approximate comparisons, scaled from eps
tol == 3 * eps

Close(a, b) ==
    /\ Len(a) = Len(b)
    /\ \A j \in 1..Len(a) : Abs(a[j] - b[j]) <= tol

TensorClose(A, B) ==
    /\ A.cls = B.cls /\ A.ltype = B.ltype /\ A.lshape = B.lshape
    /\ Len(A.data) = Len(B.data)
    /\ \A i \in 1..Len(A.data) : Close(A.data[i], B.data[i])

\* the rotation part of an algebra element
RotPart(k, e) == IF k \in {"so3_type", "rxso3_type"} THEN vec3(e, 1) ELSE vec3(e, 4)

Called(fn) == pc = "done" /\ arg.fn = fn

IsGroupValue(v) == v.cls = "LieTensor" /\ v.ltype \in GroupTypes

IsAlgebraValue(v) == v.cls = "LieTensor" /\ v.ltype \in AlgebraTypes

\* C3: Mul of two group values of different kinds raises KindMismatch and
\* returns no result (in particular not a value of either operand's kind).
C3_MulKindMismatch ==
    (Called("Mul") /\ Len(arg.args) = 2
     /\ IsGroupValue(arg.args[1]) /\ IsGroupValue(arg.args[2])
     /\ arg.args[1].ltype # arg.args[2].ltype) =>
        /\ ret.err = "KindMismatch"
        /\ ret.val = None

C3_Witness ==
    /\ Called("Mul") /\ Len(arg.args) = 2
    /\ arg.args[1].ltype = "SO3_type" /\ arg.args[2].ltype = "SE3_type"
    /\ ret.err = "KindMismatch"

\* C4: for each group kind and each group value X, Retr(X, a) with a the
\* all-zero tangent of the paired algebra kind returns exactly X.
C4_RetrZeroExact ==
    (Called("Retr") /\ Len(arg.args) = 2 /\ IsGroupValue(arg.args[1])
     /\ arg.args[2] = ZeroLike(Paired(arg.args[1].ltype), arg.args[1])) =>
        /\ ret.err = "none"
        /\ ret.val = arg.args[1]

C4_Witness ==
    /\ Called("Retr") /\ Len(arg.args) = 2
    /\ arg.args[1].ltype = "Sim3_type"
    /\ arg.args[2] = ZeroLike("sim3_type", arg.args[1])
    /\ arg.args[1].data # <<>>
    /\ arg.args[1].data[1] # IdentityElem("Sim3_type")
    /\ ret.val = arg.args[1]

C5_WitnessEmpty ==
    /\ Called("Log") /\ arg.from # None
    /\ arg.from.lshape = <<MaxBatch, 0>>
    /\ ret.val = arg.from

MulByInverse ==
    /\ Called("Mul") /\ Len(arg.args) = 2 /\ IsGroupValue(arg.args[1])
    /\ arg.args[2] = LieTensor_Inv(arg.args[1]).val

\* C6 as amended: for each group kind and each group value X,
\* Mul(X, Inv(X)) is the kind's identity value within the tolerance.
C6_MulInvIdentityClose ==
    MulByInverse =>
        /\ ret.err = "none"
        /\ TensorClose(ret.val, IdentityLike(arg.args[1].ltype, arg.args[1]))

C6_Witness ==
    /\ MulByInverse
    /\ arg.args[1].ltype = "SE3_type"
    /\ arg.args[1].data # <<>>
    /\ arg.args[1].data[1] # IdentityElem("SE3_type")
    /\ TensorClose(ret.val, IdentityLike("SE3_type", arg.args[1]))

\* C6 as stated: Mul(X, Inv(X)) equals the kind's identity value, component
\* for component.
C6_MulInvIdentityExact ==
    MulByInverse =>
        /\ ret.err = "none"
        /\ ret.val = IdentityLike(arg.args[1].ltype, arg.args[1])

\* C7: Exp maps the all-zero tangent of each algebra kind to the identity of
\* the paired group kind, and Log maps each group identity to the all-zero
\* tangent of the paired algebra kind.
C7_IdentityMapsToIdentity ==
    /\ (Called("Exp") /\ Len(arg.args) = 1 /\ arg.kw = {}
        /\ IsAlgebraValue(arg.args[1])
        /\ arg.args[1] = ZeroLike(arg.args[1].ltype, arg.args[1])) =>
           /\ ret.err = "none"
           /\ ret.val = IdentityLike(Paired(arg.args[1].ltype), arg.args[1])
    /\ (Called("Log") /\ Len(arg.args) = 1 /\ arg.kw = {}
        /\ IsGroupValue(arg.args[1])
        /\ arg.args[1] = IdentityLike(arg.args[1].ltype, arg.args[1])) =>
           /\ ret.err = "none"
           /\ ret.val = ZeroLike(Paired(arg.args[1].ltype), arg.args[1])

C7_Witness ==
    /\ Called("Exp")
    /\ arg.args = <<Single("so3_type", <<0, 0, 0>>)>>
    /\ ret.val = Single("SO3_type", <<0, 0, 0, ONE>>)

C7_WitnessLog ==
    /\ Called("Log")
    /\ arg.args = <<Single("SE3_type", <<0, 0, 0, 0, 0, 0, ONE>>)>>
    /\ ret.val = Single("se3_type", <<0, 0, 0, 0, 0, 0>>)

\* the pairing of kinds and the widths of section 3, written out
KindTable ==
    {<<"so3_type", 3, "SO3_type", 4>>, <<"se3_type", 6, "SE3_type", 7>>,
     <<"rxso3_type", 4, "RxSO3_type", 5>>, <<"sim3_type", 7, "Sim3_type", 8>>}

HasKind(v, k, w, lshape) ==
    /\ v.cls = "LieTensor" /\ v.ltype = k /\ v.lshape = lshape
    /\ \A i \in 1..Len(v.data) : Len(v.data[i]) = w

\* C9: Exp of a value of algebra kind so3/se3/rxso3/sim3 (width 3/6/4/7) is
\* tagged with the paired group kind (width 4/7/5/8) and has the same batch
\* dims; Log of a group value is tagged with the paired algebra kind and has
\* the same batch dims; so kind(Log(Exp(x))) = kind(x) and
\* kind(Exp(Log(X))) = kind(X).
C9_KindPairing ==
    \A row \in KindTable :
        /\ (Called("Exp") /\ Len(arg.args) = 1 /\ arg.kw = {}
            /\ arg.args[1].cls = "LieTensor" /\ arg.args[1].ltype = row[1]) =>
               /\ ret.err = "none"
               /\ HasKind(arg.args[1], row[1], row[2], arg.args[1].lshape)
               /\ HasKind(ret.val, row[3], row[4], arg.args[1].lshape)
               /\ Log(<<ret.val>>, {}).ret.val.ltype = row[1]
        /\ (Called("Log") /\ Len(arg.args) = 1 /\ arg.kw = {}
            /\ arg.args[1].cls = "LieTensor" /\ arg.args[1].ltype = row[3]) =>
               /\ ret.err = "none"
               /\ HasKind(ret.val, row[1], row[2], arg.args[1].lshape)
               /\ arg.from # None => ret.val.ltype = arg.from.ltype
               /\ Exp(<<ret.val>>, {}).ret.val.ltype = row[3]

C9_Witness ==
    /\ Called("Exp") /\ Len(arg.args) = 1
    /\ arg.args[1].cls = "LieTensor" /\ arg.args[1].ltype = "rxso3_type"
    /\ arg.args[1].lshape = <<MaxBatch>>
    /\ HasKind(ret.val, "RxSO3_type", 5, <<MaxBatch>>)
    /\ Len(ret.val.data) = MaxBatch

\* the call of fn on operands args, kw
Apply(fn, args, kw) ==
    CASE fn = "Exp"   -> Exp(args, kw)
      [] fn = "Log"   -> Log(args, kw)
      [] fn = "Inv"   -> Inv(args, kw)
      [] fn = "Mul"   -> Mul(args, kw)
      [] fn = "Retr"  -> Retr(args, kw)
      [] fn = "Act"   -> Act(args, kw)
      [] fn = "Adj"   -> Adj(args, kw)
      [] fn = "AdjT"  -> AdjT(args, kw)
      [] fn = "Jinvp" -> Jinvp(args, kw)
      [] fn = "Jr"    -> Jr(args, kw)

\* the i-th element of a batch, as a value without batch dims
ElementOf(v, i) == [v EXCEPT !.lshape = <<>>, !.data = <<v.data[i]>>]

\* the call on the i-th elements of the operands of the current call
Alone(i) ==
    Apply(arg.fn, [n \in 1..Len(arg.args) |-> ElementOf(arg.args[n], i)],
          {[name |-> e.name, val |-> ElementOf(e.val, i)] : e \in arg.kw})

\* C8: for each kernel (Exp, Log, Inv, Mul, Act, Adj, AdjT, Jinvp, Retr) and
\* each batch, the result at position i is identical to the result of the
\* kernel on the operands' i-th elements alone, whatever the batch size and
\* the siblings' values and branches; the result has one element per element
\* of the batch.
C8_BatchIndependence ==
    (pc = "done" /\ ret.err = "none"
     /\ arg.fn \in {"Exp", "Log", "Inv", "Mul", "Act", "Adj", "AdjT", "Jinvp",
                    "Retr"}) =>
        /\ Len(ret.val.data) = Len(arg.args[1].data)
        /\ \A i \in 1..Len(ret.val.data) :
              /\ Alone(i).ret.err = "none"
              /\ Alone(i).ret.val.data = <<ret.val.data[i]>>
              /\ Alone(i).ret.val.ltype = ret.val.ltype

C8_Witness ==
    /\ Called("Exp") /\ ret.err = "none"
    /\ arg.args[1].ltype = "so3_type"
    /\ Len(arg.args[1].data) = MaxBatch
    /\ norm(arg.args[1].data[1]) <= eps
    /\ norm(arg.args[1].data[MaxBatch]) > eps
    /\ Alone(MaxBatch).ret.val.data = <<ret.val.data[MaxBatch]>>

\* C8 (Jinvp): a batch mixing both branches of the inverse left Jacobian.
C8_WitnessJinvp ==
    /\ Called("Jinvp") /\ ret.err = "none"
    /\ arg.args[1].ltype = "SE3_type"
    /\ Len(arg.args[1].data) = MaxBatch
    /\ arg.from.data[1] # arg.from.data[MaxBatch]
    /\ Alone(1).ret.val.data = <<ret.val.data[1]>>

\* the ten public operations, the name of the second parameter of the binary
\* ones, and the method each forwards to
PublicOps ==
    {"Exp", "Log", "Inv", "Mul", "Retr", "Act", "Adj", "AdjT", "Jinvp", "Jr"}

SecondName(fn) ==
    CASE fn = "Mul"              -> "y"
      [] fn \in {"Act", "Jinvp"} -> "p"
      [] OTHER                   -> "a"

IsUnary(fn) == fn \in {"Exp", "Log", "Inv", "Jr"}

MethodName(fn) == IF fn = "Mul" THEN "__mul__" ELSE fn

Method(fn, x, y) ==
    CASE fn = "Exp"   -> LieTensor_Exp(x)
      [] fn = "Log"   -> LieTensor_Log(x)
      [] fn = "Inv"   -> LieTensor_Inv(x)
      [] fn = "Jr"    -> LieTensor_Jr(x)
      [] fn = "Mul"   -> LieTensor_mul(x, y)
      [] fn = "Retr"  -> LieTensor_Retr(x, y)
      [] fn = "Act"   -> LieTensor_Act(x, y)
      [] fn = "Adj"   -> LieTensor_Adj(x, y)
      [] fn = "AdjT"  -> LieTensor_AdjT(x, y)
      [] fn = "Jinvp" -> LieTensor_Jinvp(x, y)

\* the call binds the parameters of the function, the first positionally
WellFormed ==
    IF IsUnary(arg.fn) THEN BindsUnary(arg.args, arg.kw)
    ELSE BindsBinary(arg.args, arg.kw, SecondName(arg.fn))

OtherOperand ==
    IF IsUnary(arg.fn) THEN None
    ELSE Second(arg.args, arg.kw, SecondName(arg.fn))

\* C11: each of Exp, Log, Inv, Mul, Retr, Act, Adj, AdjT, Jinvp and Jr, called
\* with a first operand that is not a LieTensor, raises without invoking the
\* method it forwards to; called with a LieTensor first operand it invokes
\* that method exactly once, on the operands as they were passed, and its
\* outcome is the method's outcome.
C11_WrapperGuard ==
    (pc = "done" /\ arg.fn \in PublicOps /\ Len(arg.args) >= 1) =>
        IF arg.args[1].cls # "LieTensor"
        THEN /\ ret.err # "none"
             /\ ret.val = None
             /\ inner = <<>>
        ELSE WellFormed =>
             /\ inner = <<Invoked(MethodName(arg.fn), arg.args[1], OtherOperand)>>
             /\ ret = Method(arg.fn, arg.args[1], OtherOperand)

\* a Tensor first operand is refused by Adj
C11_Witness ==
    /\ Called("Adj") /\ Len(arg.args) = 2
    /\ arg.args[1].cls = "Tensor" /\ arg.args[2].cls = "LieTensor"
    /\ ret.err = "AssertionError" /\ inner = <<>>

\* a LieTensor first operand is forwarded by Jr
C11_WitnessForwarded ==
    /\ Called("Jr") /\ WellFormed
    /\ Len(inner) = 1 /\ inner[1].self = arg.args[1]
    /\ ret = LieTensor_Jr(arg.args[1])
    /\ Len(ret.val.data) = MaxBatch

C12_WitnessMismatch ==
    /\ Called("Jinvp") /\ Len(arg.args) = 2
    /\ arg.args[1].ltype = "SE3_type" /\ arg.args[2].ltype = "so3_type"
    /\ ret.err = "KindMismatch" /\ ret.val = None

\* C18: for each pair of kinds, each group value X and each tangent a of the
\* paired algebra kind, Retr(X, a) returns what Mul(X, Exp(a)) returns, X
\* being the left factor.
C18_RetrIsMulExp ==
    (Called("Retr") /\ Len(arg.args) = 2 /\ arg.kw = {}
     /\ IsGroupValue(arg.args[1]) /\ IsAlgebraValue(arg.args[2])
     /\ arg.args[2].ltype = Paired(arg.args[1].ltype)
     /\ arg.args[2].lshape = arg.args[1].lshape) =>
        /\ ret.err = "none"
        /\ ret = Mul(<<arg.args[1], Exp(<<arg.args[2]>>, {}).ret.val>>, {}).ret

C18_Witness ==
    /\ Called("Retr") /\ Len(arg.args) = 2
    /\ arg.args[1].ltype = "SE3_type" /\ arg.args[2].ltype = "se3_type"
    /\ arg.args[1].lshape = <<MaxBatch>>
    /\ arg.args[2] # ZeroLike("se3_type", arg.args[1])
    /\ arg.args[1].data[MaxBatch] # IdentityElem("SE3_type")
    /\ ret.err = "none"
    /\ ret.val # arg.args[1]
    /\ ret = Mul(<<arg.args[1], Exp(<<arg.args[2]>>, {}).ret.val>>, {}).ret

(***************************************************************************)
(* Properties of concurrent sampler calls.                                  *)
(***************************************************************************)
\* thread t has drawn: its call read the generator's position
HasDrawn(t) == inner[t] # <<>>

\* the generator positions the draw of thread t consumed
Consumed(t) ==
    {inner[t][1].from + i : i \in 0..(inner[t][1].count - 1)}

\* no two calls consume the same generator position
DisjointDraws ==
    \A t, u \in Threads :
        (t # u /\ HasDrawn(t) /\ HasDrawn(u)
         /\ inner[t][1].handle = inner[u][1].handle) =>
            Consumed(t) \cap Consumed(u) = {}

\* a step that changes a generator is the step of one call that was given
\* that generator, and advances it from the position the call read by the
\* numbers the call drew; every other generator is left alone
AdvancedByOneCall ==
    \A h \in DOMAIN gens :
        gens'[h] # gens[h] =>
            \E t \in Threads :
                /\ pc'[t] # pc[t]
                /\ arg[t].generator = h
                /\ inner[t][1].handle = h
                /\ inner[t][1].from = gens[h]
                /\ inner[t][1].count = Numel(arg[t].size) * Width(AlgebraOf(SamplerKind(arg[t].fn)))
                /\ gens'[h] = gens[h] + inner[t][1].count
                /\ \A o \in DOMAIN gens : o # h => gens'[o] = gens[o]

\* a call that has returned a sample returned the one the sampler gives from
\* the position the call read
SampleFromOwnPosition ==
    \A t \in Threads :
        (pc[t] = "done" /\ ret[t].err = "none") =>
            /\ HasDrawn(t)
            /\ inner[t][1].handle = arg[t].generator
            /\ ret[t] = ThreadCall(t, inner[t][1].from).ret

\* C16: concurrent sampler calls that pass no generator draw on the default
\* generator one after the other: no two of them consume the same generator
\* position, and every change of the generator advances it from the position
\* one call read by exactly what that call drew (no update is lost).  A call
\* that passes its own generator reads and advances only that generator.
C16_DrawsSerialized ==
    /\ [](DisjointDraws /\ SampleFromOwnPosition)
    /\ [][AdvancedByOneCall]_vars

\* both threads drew on the default generator, one right after the other
C16_Witness ==
    /\ \A t \in Threads : pc[t] = "done" /\ ret[t].err = "none"
                           /\ arg[t].generator = 0
    /\ inner[2][1].from = inner[1][1].from + inner[1][1].count
    /\ gens[0] = inner[2][1].from + inner[2][1].count
    /\ gens[1] = inner[1][1].from

\* two threads with their own generators, in flight at the same time
C16_WitnessOwnHandles ==
    /\ arg[1].generator = 1 /\ arg[2].generator = 2
    /\ pc[1] = "read" /\ pc[2] = "written"
    /\ gens[1] = inner[1][1].from
    /\ gens[2] = inner[2][1].from + inner[2][1].count

(***************************************************************************)
(* Properties of the operands.                                              *)
(***************************************************************************)
FrameOps ==
    {"Exp", "Log", "Inv", "Mul", "Retr", "Act", "Adj", "AdjT", "Jinvp",
     "randn_like", "identity_like"}

C15_WitnessLike ==
    /\ pc = "done" /\ arg.fn = "randn_like" /\ ret.err = "none"
    /\ arg.args[1] = LieTensor("SE3_type", <<MaxBatch>>,
                               [i \in 1..MaxBatch |-> GenericElem("SE3_type")])
    /\ ret.val # arg.args[1]

(***************************************************************************)
(* Properties of the sigma randn_like hands to the sampler.                 *)
(***************************************************************************)
\* randn_like on a value of one of the eight kinds has invoked the sampler
SamplerReached ==
    /\ pc = "done" /\ arg.fn = "randn_like"
    /\ arg.args[1].cls = "LieTensor" /\ arg.args[1].ltype \in LieTypes
    /\ inner # <<>>

\* the forms of sigma the sampler of a kind may receive from randn_like
NormalisedForms(k) ==
    CASE AlgebraOf(k) = "so3_type"   -> {[scalar |-> TRUE, len |-> 1]}
      [] AlgebraOf(k) = "se3_type"   -> {[scalar |-> FALSE, len |-> n] : n \in {2, 4}}
      [] AlgebraOf(k) = "rxso3_type" -> {[scalar |-> FALSE, len |-> 2]}
      [] AlgebraOf(k) = "sim3_type"  -> {[scalar |-> FALSE, len |-> n] : n \in {3, 5}}

\* C28: whenever randn_like invokes the sampler of one of the eight kinds,
\* the sigma it hands over is a bare number for so3/SO3, a list of length 2
\* or 4 for se3/SE3, of length 2 for rxso3/RxSO3 and of length 3 or 5 for
\* sim3/Sim3; it is never a list of length 1; and it is the sigma the paired
\* kind is handed for the same input sigma.
C28_NormalisedSigma ==
    SamplerReached =>
        /\ Len(inner) = 1
        /\ [scalar |-> inner[1].sigma.scalar, len |-> Len(inner[1].sigma.v)]
               \in NormalisedForms(arg.args[1].ltype)
        /\ ~(~inner[1].sigma.scalar /\ Len(inner[1].sigma.v) = 1)
        /\ randn_like_sigma(Paired(arg.args[1].ltype), SigmaOf(arg)).err = "none"
        /\ inner[1].sigma =
               randn_like_sigma(Paired(arg.args[1].ltype), SigmaOf(arg)).sigma

\* randn_like of an SO3 value with the default sigma has handed the number 1
\* to the sampler
C28_Witness ==
    /\ SamplerReached /\ ~arg.given
    /\ arg.args[1].ltype = "SO3_type"
    /\ inner[1].sigma = Scalar(ONE)
    /\ ret.err = "none"

(***************************************************************************)
(* Properties of the entry check.                                           *)
(***************************************************************************)
BinaryOps == {"Mul", "Retr", "Act", "Adj", "AdjT", "Jinvp"}

\* C30: the entry check looks at the first positional operand only.  A call
\* of Mul, Retr, Act, Adj, AdjT or Jinvp that binds its two parameters is
\* refused by the check exactly when its first operand is no LieTensor,
\* whatever the second operand is; with a LieTensor first operand the method
\* is invoked on the second operand as passed, a LieTensor or not.  A call of
\* any public operation without positional operand (the first operand passed
\* by keyword) raises at the check and invokes no method.
C30_FirstPositionalOnly ==
    /\ (pc = "done" /\ arg.fn \in BinaryOps /\ Len(arg.args) >= 1 /\ WellFormed) =>
          IF arg.args[1].cls # "LieTensor"
          THEN ret.err = "AssertionError" /\ ret.val = None /\ inner = <<>>
          ELSE inner = <<Invoked(MethodName(arg.fn), arg.args[1], OtherOperand)>>
    /\ (pc = "done" /\ arg.fn \in PublicOps /\ Len(arg.args) = 0) =>
          ret.err = "IndexError" /\ ret.val = None /\ inner = <<>>

\* Jinvp with a LieTensor first and a plain Tensor second operand reached
\* the method
C30_Witness ==
    /\ Called("Jinvp") /\ Len(arg.args) = 2
    /\ arg.args[1].cls = "LieTensor" /\ arg.args[2].cls = "Tensor"
    /\ inner = <<Invoked("Jinvp", arg.args[1], arg.args[2])>>

\* Adj with both operands passed by keyword was stopped at the check
C30_WitnessKeywordOnly ==
    /\ Called("Adj") /\ arg.args = <<>> /\ KwNames(arg.kw) = {"X", "a"}
    /\ ret.err = "IndexError" /\ inner = <<>>

(***************************************************************************)
(* Properties of the sigma lists over a sequence of randn_like calls.       *)
(***************************************************************************)
\* the default list is [1.0], and a call that has omitted sigma has passed
\* validation with it
DefaultIntact ==
    /\ defaults = List(<<ONE>>)
    /\ (pc = "done" /\ ~arg.given) =>
          /\ ret.err = "none"
          /\ Len(inner) = 1
          /\ inner[1].sigma =
                 randn_like_sigma(arg.args[1].ltype, List(<<ONE>>)).sigma

\* a call leaves the list the caller passed, and the default list, as they
\* were
SigmaListsKept ==
    (pc = "call" /\ pc' = "done") =>
        /\ arg'.sigma = arg.sigma
        /\ defaults' = defaults

\* C29: in every sequence of randn_like calls, passing or failing, on any of
\* the eight kinds, each call leaves the caller's sigma list and the default
\* list [1.0] unchanged, so every call that omits sigma sees [1.0] and
\* passes validation.
C29_SigmaListsUnchanged ==
    /\ []DefaultIntact
    /\ [][SigmaListsKept]_vars

\* a later call that omits sigma, after an earlier call has drawn, passes
\* on an so3 value
C29_Witness ==
    /\ pc = "done" /\ arg.seq = MaxCalls /\ ~arg.given
    /\ arg.args[1].ltype = "so3_type"
    /\ ret.err = "none"
    /\ gens["default"] > 3 + MaxSeed
    /\ defaults = List(<<ONE>>)

(***************************************************************************)
(* Properties of identity_<kind>.                                           *)
(***************************************************************************)
\* the kind identity_<kind> returns
IdentityKind(fn) ==
    CASE fn = "identity_SO3"   -> "SO3_type"
      [] fn = "identity_so3"   -> "so3_type"
      [] fn = "identity_SE3"   -> "SE3_type"
      [] fn = "identity_se3"   -> "se3_type"
      [] fn = "identity_sim3"  -> "sim3_type"
      [] fn = "identity_Sim3"  -> "Sim3_type"
      [] fn = "identity_rxso3" -> "rxso3_type"
      [] fn = "identity_RxSO3" -> "RxSO3_type"

\* the width of each kind, written out
WidthTable(k) ==
    CASE k = "so3_type"   -> 3
      [] k = "se3_type"   -> 6
      [] k = "sim3_type"  -> 7
      [] k = "rxso3_type" -> 4
      [] k = "SO3_type"   -> 4
      [] k = "SE3_type"   -> 7
      [] k = "Sim3_type"  -> 8
      [] k = "RxSO3_type" -> 5

SigmaT(v, j) == IF Len(v) >= 4 THEN v[j] ELSE v[1]

SigmaD(k, v) ==
    IF AlgebraOf(k) \in {"so3_type", "rxso3_type"} \/ Len(v) = 1 THEN v[1]
    ELSE IF Len(v) >= 4 THEN v[4] ELSE v[2]

SigmaS(v) == v[Len(v)]

\* the standard deviation of component j of an algebra element of kind k:
\* sigma_r on the three rotation components, the requested sigma elsewhere
ComponentStd(k, v, j) ==
    CASE AlgebraOf(k) = "so3_type"   -> sigma_r(SigmaD(k, v))
      [] AlgebraOf(k) = "se3_type"   ->
            IF j <= 3 THEN SigmaT(v, j) ELSE sigma_r(SigmaD(k, v))
      [] AlgebraOf(k) = "rxso3_type" ->
            IF j <= 3 THEN sigma_r(SigmaD(k, v)) ELSE SigmaS(v)
      [] AlgebraOf(k) = "sim3_type"  ->
            IF j <= 3 THEN SigmaT(v, j)
            ELSE IF j <= 6 THEN sigma_r(SigmaD(k, v)) ELSE SigmaS(v)

\* sigma_r^2 = 4 sigma_d^2 / 3, up to the rounding of sigma_r
RescaledBy2OverSqrt3(sigma_d) ==
    Abs(3 * Mulf(sigma_r(sigma_d), sigma_r(sigma_d))
        - 4 * Mulf(sigma_d, sigma_d)) <= 20

\* element i of the algebra sample of a finished sampler call: component j
\* is its own draw, scaled by the component's standard deviation
AlgebraSample(k, v, start, i) ==
    [j \in 1..Width(AlgebraOf(k)) |->
        Mulf(ComponentStd(k, v, j),
             Normal(start + (i - 1) * Width(AlgebraOf(k)) + j - 1))]

QuaternionBlock(X) ==
    LieTensor("SO3_type", X.lshape, [i \in 1..Len(X.data) |-> vec4(X.data[i], 1)])

RotationSubvector(p) ==
    LieTensor("so3_type", p.lshape, [i \in 1..Len(p.data) |-> vec3(p.data[i], 1)])

RxSO3JinvpDone ==
    /\ Called("Jinvp") /\ Len(arg.args) = 2 /\ arg.kw = {}
    /\ arg.args[1].cls = "LieTensor" /\ arg.args[1].ltype = "RxSO3_type"
    /\ arg.args[2].cls = "LieTensor" /\ arg.args[2].ltype = "rxso3_type"
    /\ arg.args[2].lshape = arg.args[1].lshape

\* C26: Jinvp(X, p) on an RxSO3 value X and an rxso3 tangent p returns, per
\* element, the scale component of p unchanged, and as rotation components
\* the SO3 Jinvp of X's quaternion block on p's rotation sub-vector: neither
\* the scale of X nor the scale component of p enters them.
C26_RxSO3JinvpBlockDiagonal ==
    RxSO3JinvpDone =>
        /\ ret.err = "none"
        /\ Len(ret.val.data) = Len(arg.args[1].data)
        /\ \A i \in 1..Len(ret.val.data) :
              /\ Len(ret.val.data[i]) = 4
              /\ ret.val.data[i][4] = arg.args[2].data[i][4]
        /\ RotationSubvector(ret.val).data =
              Jinvp(<<QuaternionBlock(arg.args[1]),
                      RotationSubvector(arg.args[2])>>, {}).ret.val.data

\* a batch whose first element has a scale other than 1 and a tangent with a
\* non-zero scale component, on which the Jacobian moves the rotation part
C26_Witness ==
    /\ RxSO3JinvpDone /\ ret.err = "none"
    /\ arg.args[1].lshape = <<MaxBatch>>
    /\ arg.args[1].data[1][5] # ONE
    /\ arg.args[2].data[1][4] # 0
    /\ ret.val.data[1][4] = arg.args[2].data[1][4]
    /\ vec3(ret.val.data[1], 1) # vec3(arg.args[2].data[1], 1)

(***************************************************************************)
(* The eps branching of the operator sW in sim3 Exp and in Sim3 Log.       *)
(***************************************************************************)
sim3ExpDone ==
    /\ Called("Exp") /\ Len(arg.args) = 1 /\ arg.kw = {}
    /\ arg.args[1].cls = "LieTensor" /\ arg.args[1].ltype = "sim3_type"

\* C22: for every element (theta, sigma) that sim3 Exp is applied to,
\* including |sigma| = eps and theta = eps exactly, Sim3 Log selects for that
\* (theta, sigma) the same one of the four (A, B, C) branches that Exp
\* selected, so that the sW it inverts has the coefficients of the sW applied.
C22_LogBranchesAsExp ==
    sim3ExpDone =>
        \A i \in 1..Len(arg.args[1].data) :
            LET x     == arg.args[1].data[i]
                th    == norm(vec3(x, 4))
                sigma == x[7]
                s     == exp(sigma)
                bE    == sim3_Exp_branch(th, sigma)
                bL    == Sim3_Log_branch(th, sigma)
            IN /\ bL = bE
               /\ calcW(th, sigma, s, bL.sigBig, bL.thBig)
                     = calcW(th, sigma, s, bE.sigBig, bE.thBig)

\* away from the two thresholds the branches, and the operators, agree
C22_BranchesAgreeOffThreshold ==
    sim3ExpDone =>
        \A i \in 1..Len(arg.args[1].data) :
            LET x     == arg.args[1].data[i]
                th    == norm(vec3(x, 4))
                sigma == x[7]
            IN (Abs(sigma) # eps /\ th # eps) =>
                  Sim3_Log_branch(th, sigma) = sim3_Exp_branch(th, sigma)

(***************************************************************************)
(* SO3 Log on rotations by pi.                                             *)
(***************************************************************************)
\* a Log call on SO3 elements that all take the branch |nu| > eps, |w| <= eps
SO3LogAtPi ==
    /\ Called("Log") /\ Len(arg.args) = 1 /\ arg.kw = {}
    /\ arg.args[1].cls = "LieTensor" /\ arg.args[1].ltype = "SO3_type"
    /\ Len(arg.args[1].data) > 0
    /\ \A i \in 1..Len(arg.args[1].data) :
          /\ norm(vec3(arg.args[1].data[i], 1)) > eps
          /\ Abs(arg.args[1].data[i][4]) <= eps

\* C23: on an SO3 value of rotation angle pi (|nu| > eps, |w| <= eps, w = 0
\* included) Log returns, per element, a rotation vector of norm pi along the
\* axis nu, and when the value is Exp(x) with |x| = pi it returns x.
C23_LogAtPi ==
    SO3LogAtPi =>
        /\ ret.err = "none"
        /\ \A i \in 1..Len(ret.val.data) :
              LET y  == ret.val.data[i]
                  nu == vec3(arg.args[1].data[i], 1)
              IN /\ Abs(norm(y) - PI) <= tol
                 /\ \A j \in 1..3 :
                       Abs(Abs(y[j]) - Abs(Divf(Mulf(PI, nu[j]), norm(nu)))) <= tol
        /\ (arg.from # None
            /\ \A i \in 1..Len(arg.from.data) : norm(arg.from.data[i]) = PI) =>
              TensorClose(ret.val, arg.from)

(***************************************************************************)
(* The divisions evaluated by the branch that an element takes.  A         *)
(* division records the magnitudes of the quantities compared with eps     *)
(* that enter its divisor (theta, sigma, and for Log the norm of nu and w) *)
(* and the divisor itself.                                                 *)
(***************************************************************************)
Division(bases, v) == [bases |-> bases, val |-> v]

\* so3 Exp: sin(theta / 2) / theta when theta > eps
so3_Exp_divisions(th) == IF th > eps THEN {Division({th}, th)} ELSE {}

\* the divisors of A, B and C in the branch (sigBig, thBig) of calcW
calcW_divisions(th, sigma, sigBig, thBig) ==
    LET t2 == Mulf(th, th)
        s2 == Mulf(sigma, sigma)
    IN (IF sigBig THEN {Division({Abs(sigma)}, sigma)} ELSE {})
       \cup (IF sigBig /\ thBig
             THEN {Division({th}, th), Division({th, Abs(sigma)}, s2 + t2),
                   Division({th}, t2)}
             ELSE {})
       \cup (IF sigBig /\ ~thBig THEN {Division({Abs(sigma)}, s2)} ELSE {})
       \cup (IF ~sigBig /\ thBig THEN {Division({th}, t2), Division({th}, th)}
             ELSE {})

so3_Jl_divisions(th) == calcW_divisions(th, 0, FALSE, th > eps)

sim3_Exp_divisions(th, sigma) ==
    calcW_divisions(th, sigma, sim3_Exp_branch(th, sigma).sigBig,
                    sim3_Exp_branch(th, sigma).thBig)

\* SO3 Log: 1 / |nu| when |nu| > eps, with arctan(|nu| / w) when |w| > eps;
\* 1 / w and 1 / w^3 in the series
SO3_Log_divisions(q) ==
    LET w == q[4]
        n == norm(vec3(q, 1))
    IN IF n > eps
       THEN {Division({n}, n)}
            \cup (IF Abs(w) > eps THEN {Division({Abs(w)}, w)} ELSE {})
       ELSE {Division({Abs(w)}, w)}

\* coef of the inverse left Jacobian: 1 / theta^2 and 1 / (2 theta sin(theta/2))
so3_Jl_inv_divisions(th) ==
    IF th > eps
    THEN {Division({th}, th), Division({th}, 2 * Mulf(th, sin(Half(th))))}
    ELSE {}

\* c1, c2, c3 of Q: theta^3, 2 theta^4, 2 theta^5, evaluated by successive
\* divisions by theta^3, 2 theta^2, theta^2 and 2 theta^3
se3_Q_divisions(th) ==
    LET t2 == Mulf(th, th)
        t3 == Mulf(t2, th)
    IN IF th > eps
       THEN {Division({th}, t3), Division({th}, 2 * t2), Division({th}, t2),
             Division({th}, 2 * t3)}
       ELSE {}

Sim3_Log_divisions(th, sigma) ==
    calcW_divisions(th, sigma, Sim3_Log_branch(th, sigma).sigBig,
                    Sim3_Log_branch(th, sigma).thBig)

\* the divisions of Exp on one element e of kind k
Exp_divisions(k, e) ==
    LET th == norm(RotPart(k, e))
    IN so3_Exp_divisions(th)
       \cup (IF k = "se3_type" THEN so3_Jl_divisions(th) ELSE {})
       \cup (IF k = "sim3_type" THEN sim3_Exp_divisions(th, e[7]) ELSE {})

\* the quaternion block of a group element
QuatPart(k, E) == IF k \in {"SO3_type", "RxSO3_type"} THEN vec4(E, 1) ELSE vec4(E, 4)

\* the divisions of Log on one element E of kind k
Log_divisions(k, E) ==
    LET th == norm(SO3_Log(QuatPart(k, E)))
    IN SO3_Log_divisions(QuatPart(k, E))
       \cup (IF k = "SE3_type" THEN so3_Jl_inv_divisions(th) ELSE {})
       \cup (IF k = "Sim3_type" THEN Sim3_Log_divisions(th, log(E[8])) ELSE {})

\* the divisions of Jinvp at one element E of kind k: those of Log(E) and of
\* the coefficients; the sim3 series has none
Jinvp_divisions(k, E) ==
    LET th == norm(SO3_Log(QuatPart(k, E)))
    IN Log_divisions(k, E)
       \cup (IF k # "Sim3_type" THEN so3_Jl_inv_divisions(th) ELSE {})
       \cup (IF k = "SE3_type" THEN se3_Q_divisions(th) ELSE {})

\* a call of Exp, Log or Jinvp that has computed a result
GuardedCall ==
    /\ pc = "done" /\ arg.fn \in {"Exp", "Log", "Jinvp"}
    /\ ret.err = "none"
    /\ Len(arg.args) >= 1

\* the divisions evaluated by the call, over all elements of its operand
CallDivisions ==
    LET x == arg.args[1]
    IN UNION {CASE arg.fn = "Exp" -> Exp_divisions(x.ltype, x.data[i])
                [] arg.fn = "Log" -> Log_divisions(x.ltype, x.data[i])
                [] arg.fn = "Jinvp" -> Jinvp_divisions(x.ltype, x.data[i]) :
              i \in 1..Len(x.data)}

\* C21 as stated: every divisor of every division that a call of Exp, Log or
\* Jinvp evaluates for an element has magnitude at least eps.
C21_DivisorsAtLeastEps ==
    GuardedCall => \A d \in CallDivisions : Abs(d.val) >= eps

\* C21 amended: every division is evaluated only for an element whose theta,
\* sigma (both, for theta^2 + sigma^2) have magnitude at least eps, and its
\* divisor is not zero; elements at theta = 0 or sigma = 0 divide by neither.
C21_DivisionGuard ==
    GuardedCall =>
        \A d \in CallDivisions :
            /\ \A b \in d.bases : b >= eps
            /\ d.val # 0

\* Exp on a batch of sim3 elements taking different branches, one of them at
\* |sigma| = eps with theta below eps: it divides by sigma = eps and by
\* sigma^2, and not by theta
C21_Witness ==
    /\ GuardedCall /\ arg.fn = "Exp"
    /\ arg.args[1].ltype = "sim3_type" /\ arg.args[1].lshape = <<MaxBatch>>
    /\ \E i \in 1..MaxBatch :
          LET e == arg.args[1].data[i]
          IN /\ e[7] = eps /\ norm(vec3(e, 4)) < eps /\ norm(vec3(e, 4)) > 0
             /\ Division({eps}, eps) \in Exp_divisions("sim3_type", e)
             /\ \A d \in Exp_divisions("sim3_type", e) : d.bases = {eps}
    /\ \E i \in 1..MaxBatch :
          Division({norm(vec3(arg.args[1].data[i], 4))},
                   norm(vec3(arg.args[1].data[i], 4)))
              \in CallDivisions

\* Jinvp at an SE3 element of rotation angle above eps: c1, c2, c3 divide
C21_WitnessJinvp ==
    /\ GuardedCall /\ arg.fn = "Jinvp" /\ arg.args[1].ltype = "SE3_type"
    /\ Cardinality(CallDivisions) >= 6

\* Exp at theta = eps exactly: sim3 divides by theta, so3 does not
C21_WitnessAtEps ==
    /\ GuardedCall /\ arg.fn = "Exp" /\ arg.args[1].ltype = "sim3_type"
    /\ Len(arg.args[1].data) = 1
    /\ norm(vec3(arg.args[1].data[1], 4)) = eps
    /\ arg.args[1].data[1][7] = 0
    /\ CallDivisions = {Division({eps}, eps), Division({eps}, Mulf(eps, eps))}

(***************************************************************************)
(* Continuity of so3 Exp and SO3 Log across the eps threshold.             *)
(***************************************************************************)
\* the largest componentwise distance of two elements
Dist(a, b) ==
    CHOOSE d \in {Abs(a[j] - b[j]) : j \in 1..Len(a)} :
        \A j \in 1..Len(a) : Abs(a[j] - b[j]) <= d

\* an Exp call on one of the rotation vectors of the test norms
ExpAtTestNorm ==
    /\ Called("Exp") /\ Len(arg.args) = 1 /\ arg.kw = {}
    /\ arg.args[1].cls = "LieTensor" /\ arg.args[1].ltype = "so3_type"
    /\ arg.args[1].lshape = <<>>
    /\ arg.args[1].data[1] \in NormVecs

\* a Log call on Exp of one of the rotation vectors of the test norms
LogAtTestNorm ==
    /\ Called("Log") /\ Len(arg.args) = 1 /\ arg.kw = {}
    /\ arg.args[1].cls = "LieTensor" /\ arg.args[1].ltype = "SO3_type"
    /\ arg.from # None /\ arg.from.lshape = <<>>
    /\ arg.from.data[1] \in NormVecs

C27_JumpAtThreshold ==
    /\ (ExpAtTestNorm /\ norm(arg.args[1].data[1]) \in {eps \div 2, eps, 2 * eps}) =>
          Dist(so3_Exp_series(arg.args[1].data[1]),
               so3_Exp_closed(arg.args[1].data[1])) <= 2
    /\ (LogAtTestNorm /\ norm(arg.from.data[1]) \in {eps \div 2, eps, 2 * eps}) =>
          Dist(SO3_Log_series(arg.args[1].data[1]),
               SO3_Log_closed(arg.args[1].data[1])) <= 2

C27_WitnessLog ==
    /\ LogAtTestNorm /\ ret.err = "none"
    /\ norm(arg.from.data[1]) = ONE
    /\ ret.val.data[1] = SO3_Log_closed(arg.args[1].data[1])
    /\ Dist(ret.val.data[1], arg.from.data[1]) <= tol
====
